---- MODULE Spec2Model ----
(***************************************************************************)
(* A model of the NES emulator core: the memory bus, the PPU register and  *)
(* timing state machine, and the CPU fetch/execute loop.                   *)
(*                                                                         *)
(* Byte arrays (cpu_vram, vram, oam_data, palette, prg_rom, chr_rom) are    *)
(* kept as finite maps holding only their non-zero cells: every array of   *)
(* the program starts zeroed, Get reads a cell and Put stores one.  Index  *)
(* range checks are written out where the program can fail them.           *)
(* A Rust panic is the field "panic" of an operation's result; once the    *)
(* program has panicked no operation runs any more.                        *)
(***************************************************************************)
EXTENDS Integers, Sequences, FiniteSets, TLC

\* cpu, bus: the CPU and the Bus it owns (the Bus owns the PPU and the joypad)
\* panicked: the program has aborted with a panic
\* log: the bus calls made so far with their results, in the specifications
\*      that drive the bus call by call
VARIABLES cpu, bus, panicked, log

vars == <<cpu, bus, panicked, log>>

(***************************************************************************)
(* Fixed-width arithmetic                                                  *)
(***************************************************************************)
RECURSIVE BitAndN(_, _, _)
BitAndN(a, b, n) ==
    IF n = 0 THEN 0
    ELSE (a % 2) * (b % 2) + 2 * BitAndN(a \div 2, b \div 2, n - 1)

BitAnd(a, b) == BitAndN(a, b, 16)

BitOr(a, b) == a + b - BitAnd(a, b)

BitXor(a, b) == a + b - 2 * BitAnd(a, b)

Bit(v, n) == (v \div (2 ^ n)) % 2

SetBit(v, n, on) == v - Bit(v, n) * (2 ^ n) + (IF on THEN 2 ^ n ELSE 0)

wrapping_add_u8(a, b) == (a + b) % 256

wrapping_sub_u8(a, b) == (a - b + 256) % 256

wrapping_add_u16(a, b) == (a + b) % 65536

(***************************************************************************)
(* Zero-initialised arrays as finite maps of their non-zero cells          *)
(***************************************************************************)
EmptyArr == [i \in {} |-> 0]

Get(arr, i) == IF i \in DOMAIN arr THEN arr[i] ELSE 0

Put(arr, i, v) ==
    IF v = 0
    THEN [j \in (DOMAIN arr) \ {i} |-> arr[j]]
    ELSE [j \in (DOMAIN arr) \cup {i} |-> IF j = i THEN v ELSE arr[j]]

None == <<>>

Some(v) == <<v>>

(***************************************************************************)
(* Sizes fixed by the program                                              *)
(***************************************************************************)
CPU_VRAM_LEN == 2048

VRAM_LEN == 2048

PALETTE_LEN == 32

OAM_LEN == 256

SCANLINE_DOTS == 341

FRAME_SCANLINES == 262

VBLANK_SCANLINE == 241

(***************************************************************************)
(* Register bits                                                           *)
(***************************************************************************)
GENERATE_NMI == 128

VRAM_ADD_INCREMENT == 4

VERTICAL_BLANK == 128

SPRITE_0_HIT == 64

SPRITE_OVERFLOW == 32

generate_nmi(control) == BitAnd(control, GENERATE_NMI) # 0

vram_addr_increment(control) ==
    IF BitAnd(control, VRAM_ADD_INCREMENT) = 0 THEN 1 ELSE 32

in_vertical_blank(status) == BitAnd(status, VERTICAL_BLANK) # 0

sprite_0_hit(status) == BitAnd(status, SPRITE_0_HIT) # 0

\* bitflags' set(flag, value): insert the flag or remove it
set_flag(bits, flag, value) ==
    IF value THEN BitOr(bits, flag) ELSE bits - BitAnd(bits, flag)

set_vertical_blank(status, value) == set_flag(status, VERTICAL_BLANK, value)

set_sprite_0_hit(status, value) == set_flag(status, SPRITE_0_HIT, value)

set_sprite_overflow(status, value) == set_flag(status, SPRITE_OVERFLOW, value)

(***************************************************************************)
(* Address and scroll registers: a 16-bit target (two scroll bytes) and a  *)
(* write-toggle latch; latch = FALSE selects the first (high) byte.        *)
(***************************************************************************)
AddrRegister_new == [value |-> 0, latch |-> FALSE]

AddrRegister_get(a) == a.value

AddrRegister_update(a, data) ==
    LET v == IF ~a.latch
             THEN data * 256 + (a.value % 256)
             ELSE (a.value \div 256) * 256 + data
    IN [value |-> BitAnd(v, 16383), latch |-> ~a.latch]

AddrRegister_increment(a, inc) ==
    [a EXCEPT !.value = BitAnd(wrapping_add_u16(a.value, inc), 16383)]

AddrRegister_reset_latch(a) == [a EXCEPT !.latch = FALSE]

ScrollRegister_new == [scroll_x |-> 0, scroll_y |-> 0, latch |-> FALSE]

ScrollRegister_write(s, data) ==
    IF ~s.latch
    THEN [s EXCEPT !.scroll_x = data, !.latch = TRUE]
    ELSE [s EXCEPT !.scroll_y = data, !.latch = FALSE]

ScrollRegister_reset_latch(s) == [s EXCEPT !.latch = FALSE]

(***************************************************************************)
(* PPU                                                                     *)
(***************************************************************************)
PPU_new(chr_rom, mirroring) ==
    [chr_rom |-> chr_rom,
     palette |-> EmptyArr,
     vram |-> EmptyArr,
     oam_data |-> EmptyArr,
     oam_addr |-> 0,
     mirroring |-> mirroring,
     internal_data_buffer |-> 0,
     addr |-> AddrRegister_new,
     control |-> 0,
     mask |-> 0,
     status |-> 0,
     scroll |-> ScrollRegister_new,
     scanlines |-> 0,
     cycles |-> 0,
     nmi_interrupt |-> None]

\* PPU::tick as it would be if the scanline counter were reset only past 262
PPU_tick_late_rollover(p, cycles) ==
    LET c1 == p.cycles + cycles IN
    IF c1 >= SCANLINE_DOTS
    THEN LET sl == p.scanlines + 1
             entering == (sl = VBLANK_SCANLINE)
             st1 == IF entering
                    THEN set_sprite_0_hit(set_vertical_blank(p.status, TRUE), FALSE)
                    ELSE p.status
             nmi1 == IF entering /\ generate_nmi(p.control)
                     THEN Some(1) ELSE p.nmi_interrupt
         IN IF sl > FRAME_SCANLINES
            THEN [ppu |-> [p EXCEPT !.cycles = c1 - SCANLINE_DOTS,
                                    !.scanlines = 0,
                                    !.nmi_interrupt = None,
                                    !.status = set_vertical_blank(
                                                 set_sprite_0_hit(st1, FALSE), FALSE)],
                  val |-> TRUE]
            ELSE [ppu |-> [p EXCEPT !.cycles = c1 - SCANLINE_DOTS,
                                    !.scanlines = sl,
                                    !.nmi_interrupt = nmi1,
                                    !.status = st1],
                  val |-> FALSE]
    ELSE [ppu |-> [p EXCEPT !.cycles = c1], val |-> FALSE]

\* PPU::tick as it would be without the VBlank reset at the end of the frame
PPU_tick_keeps_vblank(p, cycles) ==
    LET c1 == p.cycles + cycles IN
    IF c1 >= SCANLINE_DOTS
    THEN LET sl == p.scanlines + 1
             entering == (sl = VBLANK_SCANLINE)
             st1 == IF entering
                    THEN set_sprite_0_hit(set_vertical_blank(p.status, TRUE), FALSE)
                    ELSE p.status
             nmi1 == IF entering /\ generate_nmi(p.control)
                     THEN Some(1) ELSE p.nmi_interrupt
         IN IF sl >= FRAME_SCANLINES
            THEN [ppu |-> [p EXCEPT !.cycles = c1 - SCANLINE_DOTS,
                                    !.scanlines = 0,
                                    !.nmi_interrupt = None,
                                    !.status = set_sprite_0_hit(st1, FALSE)],
                  val |-> TRUE]
            ELSE [ppu |-> [p EXCEPT !.cycles = c1 - SCANLINE_DOTS,
                                    !.scanlines = sl,
                                    !.nmi_interrupt = nmi1,
                                    !.status = st1],
                  val |-> FALSE]
    ELSE [ppu |-> [p EXCEPT !.cycles = c1], val |-> FALSE]

\* PPU::tick as it would be if entering VBlank raised the NMI unconditionally
PPU_tick_always_nmi(p, cycles) ==
    LET c1 == p.cycles + cycles IN
    IF c1 >= SCANLINE_DOTS
    THEN LET sl == p.scanlines + 1
             entering == (sl = VBLANK_SCANLINE)
             st1 == IF entering
                    THEN set_sprite_0_hit(set_vertical_blank(p.status, TRUE), FALSE)
                    ELSE p.status
             nmi1 == IF entering THEN Some(1) ELSE p.nmi_interrupt
         IN IF sl >= FRAME_SCANLINES
            THEN [ppu |-> [p EXCEPT !.cycles = c1 - SCANLINE_DOTS,
                                    !.scanlines = 0,
                                    !.nmi_interrupt = None,
                                    !.status = set_vertical_blank(
                                                 set_sprite_0_hit(st1, FALSE), FALSE)],
                  val |-> TRUE]
            ELSE [ppu |-> [p EXCEPT !.cycles = c1 - SCANLINE_DOTS,
                                    !.scanlines = sl,
                                    !.nmi_interrupt = nmi1,
                                    !.status = st1],
                  val |-> FALSE]
    ELSE [ppu |-> [p EXCEPT !.cycles = c1], val |-> FALSE]

\* PPU::tick: the new PPU state and the returned "frame ended" flag
PPU_tick(p, cycles) ==
    LET c1 == p.cycles + cycles IN
    IF c1 >= SCANLINE_DOTS
    THEN LET sl == p.scanlines + 1
             entering == (sl = VBLANK_SCANLINE)
             st1 == IF entering
                    THEN set_sprite_0_hit(set_vertical_blank(p.status, TRUE), FALSE)
                    ELSE p.status
             nmi1 == IF entering /\ generate_nmi(p.control)
                     THEN Some(1) ELSE p.nmi_interrupt
         IN IF sl >= FRAME_SCANLINES
            THEN [ppu |-> [p EXCEPT !.cycles = c1 - SCANLINE_DOTS,
                                    !.scanlines = 0,
                                    !.nmi_interrupt = None,
                                    !.status = set_vertical_blank(
                                                 set_sprite_0_hit(st1, FALSE), FALSE)],
                  val |-> TRUE]
            ELSE [ppu |-> [p EXCEPT !.cycles = c1 - SCANLINE_DOTS,
                                    !.scanlines = sl,
                                    !.nmi_interrupt = nmi1,
                                    !.status = st1],
                  val |-> FALSE]
    ELSE [ppu |-> [p EXCEPT !.cycles = c1], val |-> FALSE]

\* increment_vram_addr as it would be if the control register were ignored
increment_vram_addr_by_one(p) ==
    [p EXCEPT !.addr = AddrRegister_increment(p.addr, 1)]

increment_vram_addr(p) ==
    [p EXCEPT !.addr = AddrRegister_increment(p.addr, vram_addr_increment(p.control))]

read_oam_data(p) == Get(p.oam_data, p.oam_addr)

\* u16 subtraction: the wrapped value; it overflows exactly when a < b
wrapping_sub_u16(a, b) == (a - b + 65536) % 65536

\* mirror_vram_addr as it would be without the arm (HORIZONTAL, 1)
mirror_vram_addr_no_table1(p, addr) ==
    LET mirrored_vram == BitAnd(addr, 12287)
        vram_index == wrapping_sub_u16(mirrored_vram, 8192)
        name_table == vram_index \div 1024
    IN IF p.mirroring = "VERTICAL" /\ name_table \in {2, 3}
       THEN wrapping_sub_u16(vram_index, 2048)
       ELSE IF p.mirroring = "HORIZONTAL" /\ name_table = 2
       THEN wrapping_sub_u16(vram_index, 1024)
       ELSE IF p.mirroring = "HORIZONTAL" /\ name_table = 3
       THEN wrapping_sub_u16(vram_index, 2048)
       ELSE vram_index

\* mirror_vram_addr, with the u16 subtractions wrapped; mirror_overflows
\* tells whether one of them went below zero (a panic where overflow checks
\* are compiled in)
mirror_vram_addr(p, addr) ==
    LET mirrored_vram == BitAnd(addr, 12287)
        vram_index == wrapping_sub_u16(mirrored_vram, 8192)
        name_table == vram_index \div 1024
    IN IF p.mirroring = "VERTICAL" /\ name_table \in {2, 3}
       THEN wrapping_sub_u16(vram_index, 2048)
       ELSE IF p.mirroring = "HORIZONTAL" /\ name_table = 2
       THEN wrapping_sub_u16(vram_index, 1024)
       ELSE IF p.mirroring = "HORIZONTAL" /\ name_table = 1
       THEN wrapping_sub_u16(vram_index, 1024)
       ELSE IF p.mirroring = "HORIZONTAL" /\ name_table = 3
       THEN wrapping_sub_u16(vram_index, 2048)
       ELSE vram_index

mirror_overflows(addr) == BitAnd(addr, 12287) < 8192

\* PPU::read_data: new state, returned byte, and whether the call panicked
read_data(p) ==
    LET addr == AddrRegister_get(p.addr)
        q == increment_vram_addr(p)
    IN IF addr <= 8191
       THEN [ppu |-> [q EXCEPT !.internal_data_buffer = Get(p.chr_rom.data, addr)],
             val |-> p.internal_data_buffer,
             panic |-> addr >= p.chr_rom.len]
       ELSE IF addr <= 12287
       THEN [ppu |-> [q EXCEPT !.internal_data_buffer =
                                   Get(p.vram, mirror_vram_addr(p, addr))],
             val |-> p.internal_data_buffer,
             panic |-> mirror_overflows(addr)
                       \/ mirror_vram_addr(p, addr) \notin 0..(VRAM_LEN - 1)]
       ELSE IF addr <= 16127
       THEN [ppu |-> q, val |-> 0, panic |-> TRUE]
       ELSE IF addr \in {16144, 16148, 16152, 16156}
       THEN [ppu |-> q, val |-> Get(p.palette, (addr - 16) - 16128), panic |-> FALSE]
       ELSE IF addr <= 16383
       THEN IF addr - 16128 < PALETTE_LEN
            THEN [ppu |-> q, val |-> Get(p.palette, addr - 16128), panic |-> FALSE]
            ELSE [ppu |-> q, val |-> 0, panic |-> TRUE]
       ELSE [ppu |-> q, val |-> 0, panic |-> TRUE]

\* write_to_ppu_addr as it would be if it fed the scroll register instead
write_to_ppu_addr_as_scroll(p, value) ==
    [p EXCEPT !.scroll = ScrollRegister_write(p.scroll, value)]

write_to_ppu_addr(p, value) ==
    [p EXCEPT !.addr = AddrRegister_update(p.addr, value)]

\* write_to_control as it would be without the check of the previous NMI bit
write_to_control_no_edge(p, value) ==
    [p EXCEPT !.control = value,
              !.nmi_interrupt =
                  IF generate_nmi(value) /\ in_vertical_blank(p.status)
                  THEN Some(1) ELSE p.nmi_interrupt]

write_to_control(p, value) ==
    LET prev_nmi == generate_nmi(p.control) IN
    [p EXCEPT !.control = value,
              !.nmi_interrupt =
                  IF ~prev_nmi /\ generate_nmi(value) /\ in_vertical_blank(p.status)
                  THEN Some(1) ELSE p.nmi_interrupt]

write_to_mask(p, value) == [p EXCEPT !.mask = value]

write_to_scroll(p, value) ==
    [p EXCEPT !.scroll = ScrollRegister_write(p.scroll, value)]

\* read_status as it would be without the reset of the address latch
read_status_keeps_latch(p) ==
    [ppu |-> [p EXCEPT !.status = set_vertical_blank(p.status, FALSE),
                       !.scroll = ScrollRegister_reset_latch(p.scroll)],
     val |-> p.status]

\* read_status as it would be if the bits were taken after clearing VBlank
read_status_late(p) ==
    [ppu |-> [p EXCEPT !.status = set_vertical_blank(p.status, FALSE),
                       !.addr = AddrRegister_reset_latch(p.addr),
                       !.scroll = ScrollRegister_reset_latch(p.scroll)],
     val |-> set_vertical_blank(p.status, FALSE)]

\* PPU::read_status: new state and returned byte
read_status(p) ==
    [ppu |-> [p EXCEPT !.status = set_vertical_blank(p.status, FALSE),
                       !.addr = AddrRegister_reset_latch(p.addr),
                       !.scroll = ScrollRegister_reset_latch(p.scroll)],
     val |-> p.status]

write_to_oam_addr(p, value) == [p EXCEPT !.oam_addr = value]

\* write_to_oam_data as it would be without the increment of oam_addr
write_to_oam_data_no_increment(p, value) ==
    [p EXCEPT !.oam_data = Put(p.oam_data, p.oam_addr, value)]

write_to_oam_data(p, value) ==
    [p EXCEPT !.oam_data = Put(p.oam_data, p.oam_addr, value),
              !.oam_addr = wrapping_add_u8(p.oam_addr, 1)]

\* PPU::write_to_data: new state and whether the call panicked
write_to_data(p, value) ==
    LET addr == AddrRegister_get(p.addr)
        q == increment_vram_addr(p)
    IN IF addr <= 8191
       THEN [ppu |-> q, panic |-> TRUE]
       ELSE IF addr <= 12287
       THEN IF ~mirror_overflows(addr)
               /\ mirror_vram_addr(p, addr) \in 0..(VRAM_LEN - 1)
            THEN [ppu |-> [q EXCEPT !.vram = Put(p.vram, mirror_vram_addr(p, addr), value)],
                  panic |-> FALSE]
            ELSE [ppu |-> q, panic |-> TRUE]
       ELSE IF addr <= 16127
       THEN [ppu |-> q, panic |-> TRUE]
       ELSE IF addr \in {16144, 16148, 16152, 16156}
       THEN LET add_mirror == addr - 16
                idx == mirror_vram_addr(p, add_mirror - 16128)
            IN IF ~mirror_overflows(add_mirror - 16128) /\ idx \in 0..(PALETTE_LEN - 1)
               THEN [ppu |-> [q EXCEPT !.palette = Put(p.palette, idx, value)], panic |-> FALSE]
               ELSE \* the subtraction overflows (a panic with overflow checks)
                    \* and its wrapped value indexes outside the palette (a
                    \* panic without them)
                    [ppu |-> q, panic |-> TRUE]
       ELSE IF addr <= 16383
       THEN IF addr - 16128 < PALETTE_LEN
            THEN [ppu |-> [q EXCEPT !.palette = Put(p.palette, addr - 16128, value)], panic |-> FALSE]
            ELSE [ppu |-> q, panic |-> TRUE]
       ELSE [ppu |-> q, panic |-> TRUE]

\* PPU::oam_dma.  The loop stores the k-th byte of data (k = 1..n) in cell
\* (oam_addr + k - 1) mod 256 and then advances oam_addr by one, wrapping;
\* written(j) are the k stored in cell j, of which the last one stays.
oam_dma(p, data) ==
    LET n == Len(data)
        first(j) == ((j - p.oam_addr + 256) % 256) + 1
        written(j) == {k \in {first(j) + 256 * t : t \in 0..(n \div 256)} : k <= n}
        cell(j) == IF written(j) = {}
                   THEN Get(p.oam_data, j)
                   ELSE data[CHOOSE k \in written(j) : \A m \in written(j) : m <= k]
    IN [p EXCEPT !.oam_data = [j \in {i \in 0..(OAM_LEN - 1) : cell(i) # 0} |-> cell(j)],
                 !.oam_addr = (p.oam_addr + n) % 256]

(***************************************************************************)
(* Joypad: 8-bit snapshot, read index and strobe bit                       *)
(***************************************************************************)
Joypad_new == [strobe |-> FALSE, button_index |-> 0, button_status |-> 0]

Joypad_write(j, data) ==
    LET strobe == (data % 2 = 1) IN
    [j EXCEPT !.strobe = strobe,
              !.button_index = IF strobe THEN 0 ELSE j.button_index]

\* Joypad::read: new state and returned byte
Joypad_read(j) ==
    IF j.button_index > 7
    THEN [joypad |-> j, val |-> 1]
    ELSE [joypad |-> IF ~j.strobe
                     THEN [j EXCEPT !.button_index = j.button_index + 1]
                     ELSE j,
          val |-> Bit(j.button_status, j.button_index)]

(***************************************************************************)
(* Bus                                                                     *)
(***************************************************************************)
RAM == 0

RAM_MIRRORS_END == 8191

PPUCTRL == 8192

PPUMASK == 8193

PPUSTATUS == 8194

OAMADDR == 8195

OAMDATA == 8196

PPUSCROLL == 8197

PPUADDR == 8198

PPUDATA == 8199

OAMDMA == 16404

PPU_REGISTERS_MIRRORS_END == 16383

\* frames counts the invocations of gameloop_callback
Bus_new(rom) ==
    [cpu_vram |-> EmptyArr,
     prg_rom |-> rom.prg_rom,
     ppu |-> PPU_new(rom.chr_rom, rom.screen_mirroring),
     joypad |-> Joypad_new,
     cycles |-> 0,
     frames |-> 0]

\* read_prg_rom as it would be without the mirror of a 16 KiB ROM
read_prg_rom_no_mirror(b, addr0) ==
    LET a1 == addr0 - 32768
        a2 == a1
    IN [val |-> Get(b.prg_rom.data, a2), panic |-> a2 >= b.prg_rom.len]

\* Bus::read_prg_rom: returned byte and whether the index is out of range
read_prg_rom(b, addr0) ==
    LET a1 == addr0 - 32768
        a2 == IF b.prg_rom.len = 16384 /\ a1 >= 16384 THEN a1 % 16384 ELSE a1
    IN [val |-> Get(b.prg_rom.data, a2), panic |-> a2 >= b.prg_rom.len]

\* Bus::poll_nmi_status as it would be if it left the flag pending
poll_nmi_status_peek(b) ==
    [bus |-> b, val |-> b.ppu.nmi_interrupt]

poll_nmi_status(b) ==
    [bus |-> [b EXCEPT !.ppu.nmi_interrupt = None], val |-> b.ppu.nmi_interrupt]

\* Bus::tick as it would be if the PPU were clocked at the CPU rate
Bus_tick_no_triple(b, cycles, overflow_checks, buttons) ==
    LET b1 == [b EXCEPT !.cycles = b.cycles + cycles]
        dots == cycles
    IN IF dots > 255 /\ overflow_checks
       THEN [bus |-> b1, panic |-> TRUE]
       ELSE LET r == PPU_tick(b1.ppu, dots % 256)
                b2 == [b1 EXCEPT !.ppu = r.ppu]
            IN IF r.val
               THEN [bus |-> [b2 EXCEPT !.frames = b2.frames + 1,
                                        !.joypad.button_status = buttons],
                     panic |-> FALSE]
               ELSE [bus |-> b2, panic |-> FALSE]

\* Bus::tick.  cycles * 3 is a u8 product: beyond 255 it panics where
\* overflow checks are compiled in and wraps where they are not.  When the
\* PPU ends a frame the host callback runs; buttons is the snapshot it leaves
\* in the joypad.
Bus_tick(b, cycles, overflow_checks, buttons) ==
    LET b1 == [b EXCEPT !.cycles = b.cycles + cycles]
        dots == cycles * 3
    IN IF dots > 255 /\ overflow_checks
       THEN [bus |-> b1, panic |-> TRUE]
       ELSE LET r == PPU_tick(b1.ppu, dots % 256)
                b2 == [b1 EXCEPT !.ppu = r.ppu]
            IN IF r.val
               THEN [bus |-> [b2 EXCEPT !.frames = b2.frames + 1,
                                        !.joypad.button_status = buttons],
                     panic |-> FALSE]
               ELSE [bus |-> b2, panic |-> FALSE]

\* Bus::mem_read on a PPU register address 0x2000..0x2007
ppu_reg_read(b, addr) ==
    IF addr \in {PPUCTRL, PPUMASK, OAMADDR, PPUSCROLL, PPUADDR}
    THEN [bus |-> b, val |-> 0, panic |-> FALSE]
    ELSE IF addr = PPUSTATUS
    THEN LET r == read_status(b.ppu)
         IN [bus |-> [b EXCEPT !.ppu = r.ppu], val |-> r.val, panic |-> FALSE]
    ELSE IF addr = PPUDATA
    THEN LET r == read_data(b.ppu)
         IN [bus |-> [b EXCEPT !.ppu = r.ppu], val |-> r.val, panic |-> r.panic]
    ELSE \* OAMDATA
         [bus |-> b, val |-> read_oam_data(b.ppu), panic |-> FALSE]

\* Bus::mem_read as it would be if 0x4016 were ignored like 0x4017
mem_read_no_controller(b, addr) ==
    IF addr >= RAM /\ addr <= RAM_MIRRORS_END
    THEN [bus |-> b, val |-> Get(b.cpu_vram, BitAnd(addr, 2047)), panic |-> FALSE]
    ELSE IF addr \in PPUCTRL..PPUDATA
    THEN ppu_reg_read(b, addr)
    ELSE IF addr = OAMDMA
    THEN [bus |-> b, val |-> 0, panic |-> FALSE]
    ELSE IF addr >= 8200 /\ addr <= PPU_REGISTERS_MIRRORS_END
    THEN ppu_reg_read(b, BitAnd(addr, 8199))
    ELSE IF addr >= 16384 /\ addr <= 16405
    THEN [bus |-> b, val |-> 0, panic |-> FALSE]
    ELSE IF addr = 16406
    THEN [bus |-> b, val |-> 0, panic |-> FALSE]
    ELSE IF addr = 16407
    THEN [bus |-> b, val |-> 0, panic |-> FALSE]
    ELSE IF addr >= 32768 /\ addr <= 65535
    THEN LET r == read_prg_rom(b, addr)
         IN [bus |-> b, val |-> r.val, panic |-> r.panic]
    ELSE [bus |-> b, val |-> 0, panic |-> FALSE]

\* Bus::mem_read as it would be with the register mirror masked by 0x200F
mem_read_wide_mask(b, addr) ==
    IF addr >= RAM /\ addr <= RAM_MIRRORS_END
    THEN [bus |-> b, val |-> Get(b.cpu_vram, BitAnd(addr, 2047)), panic |-> FALSE]
    ELSE IF addr \in PPUCTRL..PPUDATA
    THEN ppu_reg_read(b, addr)
    ELSE IF addr = OAMDMA
    THEN [bus |-> b, val |-> 0, panic |-> FALSE]
    ELSE IF addr >= 8200 /\ addr <= PPU_REGISTERS_MIRRORS_END
    THEN ppu_reg_read(b, BitAnd(addr, 8207))
    ELSE IF addr >= 16384 /\ addr <= 16405
    THEN [bus |-> b, val |-> 0, panic |-> FALSE]
    ELSE IF addr = 16406
    THEN LET r == Joypad_read(b.joypad)
         IN [bus |-> [b EXCEPT !.joypad = r.joypad], val |-> r.val, panic |-> FALSE]
    ELSE IF addr = 16407
    THEN [bus |-> b, val |-> 0, panic |-> FALSE]
    ELSE IF addr >= 32768 /\ addr <= 65535
    THEN LET r == read_prg_rom(b, addr)
         IN [bus |-> b, val |-> r.val, panic |-> r.panic]
    ELSE [bus |-> b, val |-> 0, panic |-> FALSE]

\* Bus::mem_read: new state, returned byte, and whether the call panicked
mem_read(b, addr) ==
    IF addr >= RAM /\ addr <= RAM_MIRRORS_END
    THEN [bus |-> b, val |-> Get(b.cpu_vram, BitAnd(addr, 2047)), panic |-> FALSE]
    ELSE IF addr \in PPUCTRL..PPUDATA
    THEN ppu_reg_read(b, addr)
    ELSE IF addr = OAMDMA
    THEN [bus |-> b, val |-> 0, panic |-> FALSE]
    ELSE IF addr >= 8200 /\ addr <= PPU_REGISTERS_MIRRORS_END
    THEN ppu_reg_read(b, BitAnd(addr, 8199))
    ELSE IF addr >= 16384 /\ addr <= 16405
    THEN [bus |-> b, val |-> 0, panic |-> FALSE]
    ELSE IF addr = 16406
    THEN LET r == Joypad_read(b.joypad)
         IN [bus |-> [b EXCEPT !.joypad = r.joypad], val |-> r.val, panic |-> FALSE]
    ELSE IF addr = 16407
    THEN [bus |-> b, val |-> 0, panic |-> FALSE]
    ELSE IF addr >= 32768 /\ addr <= 65535
    THEN LET r == read_prg_rom(b, addr)
         IN [bus |-> b, val |-> r.val, panic |-> r.panic]
    ELSE [bus |-> b, val |-> 0, panic |-> FALSE]

\* the slice &cpu_vram[start..end]: the cells start .. end-1
cpu_vram_slice(b, start, end) ==
    [k \in 1..(end - start) |-> Get(b.cpu_vram, start + k - 1)]

\* Bus::mem_write on a PPU register address 0x2000..0x2007
ppu_reg_write(b, addr, data) ==
    IF addr = PPUCTRL
    THEN [bus |-> [b EXCEPT !.ppu = write_to_control(b.ppu, data)], panic |-> FALSE]
    ELSE IF addr = PPUMASK
    THEN [bus |-> [b EXCEPT !.ppu = write_to_mask(b.ppu, data)], panic |-> FALSE]
    ELSE IF addr = PPUSTATUS
    THEN [bus |-> b, panic |-> FALSE]
    ELSE IF addr = PPUADDR
    THEN [bus |-> [b EXCEPT !.ppu = write_to_ppu_addr(b.ppu, data)], panic |-> FALSE]
    ELSE IF addr = PPUSCROLL
    THEN [bus |-> [b EXCEPT !.ppu = write_to_scroll(b.ppu, data)], panic |-> FALSE]
    ELSE IF addr = OAMADDR
    THEN [bus |-> [b EXCEPT !.ppu = write_to_oam_addr(b.ppu, data)], panic |-> FALSE]
    ELSE IF addr = OAMDATA
    THEN [bus |-> [b EXCEPT !.ppu = write_to_oam_data(b.ppu, data)], panic |-> FALSE]
    ELSE \* PPUDATA
         LET r == write_to_data(b.ppu, data)
         IN [bus |-> [b EXCEPT !.ppu = r.ppu], panic |-> r.panic]

\* the OAMDMA arm of Bus::mem_write
oam_dma_write(b, data) ==
    LET start == data * 256
        end == BitOr(data * 256, 255)
    IN IF end > CPU_VRAM_LEN
       THEN [bus |-> b, panic |-> TRUE]
       ELSE [bus |-> [b EXCEPT !.ppu = oam_dma(b.ppu, cpu_vram_slice(b, start, end))],
             panic |-> FALSE]

\* Bus::mem_write as it would be without the mask of the RAM arm
mem_write_no_ram_mirror(b, addr, data) ==
    IF addr >= RAM /\ addr <= RAM_MIRRORS_END
    THEN [bus |-> [b EXCEPT !.cpu_vram = Put(b.cpu_vram, addr, data)],
          panic |-> FALSE]
    ELSE IF addr \in PPUCTRL..PPUDATA
    THEN ppu_reg_write(b, addr, data)
    ELSE IF addr >= 8200 /\ addr <= PPU_REGISTERS_MIRRORS_END
    THEN ppu_reg_write(b, BitAnd(addr, 8199), data)
    ELSE IF addr = OAMDMA
    THEN oam_dma_write(b, data)
    ELSE IF (addr >= 16384 /\ addr <= 16403) \/ addr = 16405
    THEN [bus |-> b, panic |-> FALSE]
    ELSE IF addr = 16406
    THEN [bus |-> [b EXCEPT !.joypad = Joypad_write(b.joypad, data)], panic |-> FALSE]
    ELSE IF addr = 16407
    THEN [bus |-> b, panic |-> FALSE]
    ELSE IF addr >= 32768 /\ addr <= 65535
    THEN [bus |-> b, panic |-> TRUE]
    ELSE [bus |-> b, panic |-> FALSE]

\* Bus::mem_write as it would be if the program ROM arm stored the byte
mem_write_prg_writable(b, addr, data) ==
    IF addr >= RAM /\ addr <= RAM_MIRRORS_END
    THEN [bus |-> [b EXCEPT !.cpu_vram = Put(b.cpu_vram, BitAnd(addr, 2047), data)],
          panic |-> FALSE]
    ELSE IF addr \in PPUCTRL..PPUDATA
    THEN ppu_reg_write(b, addr, data)
    ELSE IF addr >= 8200 /\ addr <= PPU_REGISTERS_MIRRORS_END
    THEN ppu_reg_write(b, BitAnd(addr, 8199), data)
    ELSE IF addr = OAMDMA
    THEN oam_dma_write(b, data)
    ELSE IF (addr >= 16384 /\ addr <= 16403) \/ addr = 16405
    THEN [bus |-> b, panic |-> FALSE]
    ELSE IF addr = 16406
    THEN [bus |-> [b EXCEPT !.joypad = Joypad_write(b.joypad, data)], panic |-> FALSE]
    ELSE IF addr = 16407
    THEN [bus |-> b, panic |-> FALSE]
    ELSE IF addr >= 32768 /\ addr <= 65535
    THEN [bus |-> [b EXCEPT !.prg_rom.data = Put(b.prg_rom.data, addr - 32768, data)],
          panic |-> FALSE]
    ELSE [bus |-> b, panic |-> FALSE]

\* Bus::mem_write: new state and whether the call panicked
mem_write(b, addr, data) ==
    IF addr >= RAM /\ addr <= RAM_MIRRORS_END
    THEN [bus |-> [b EXCEPT !.cpu_vram = Put(b.cpu_vram, BitAnd(addr, 2047), data)],
          panic |-> FALSE]
    ELSE IF addr \in PPUCTRL..PPUDATA
    THEN ppu_reg_write(b, addr, data)
    ELSE IF addr >= 8200 /\ addr <= PPU_REGISTERS_MIRRORS_END
    THEN ppu_reg_write(b, BitAnd(addr, 8199), data)
    ELSE IF addr = OAMDMA
    THEN oam_dma_write(b, data)
    ELSE IF (addr >= 16384 /\ addr <= 16403) \/ addr = 16405
    THEN [bus |-> b, panic |-> FALSE]
    ELSE IF addr = 16406
    THEN [bus |-> [b EXCEPT !.joypad = Joypad_write(b.joypad, data)], panic |-> FALSE]
    ELSE IF addr = 16407
    THEN [bus |-> b, panic |-> FALSE]
    ELSE IF addr >= 32768 /\ addr <= 65535
    THEN [bus |-> b, panic |-> TRUE]
    ELSE [bus |-> b, panic |-> FALSE]

(***************************************************************************)
(* CPU registers                                                           *)
(***************************************************************************)
CPU_new ==
    [register_a |-> 0, register_x |-> 0, register_y |-> 0,
     register_s |-> 253, status |-> 36, program_counter |-> 0]

NEGATIVE == 128
BREAK1 == 32
BREAK2 == 16
INTERRUPT == 4
ZERO == 2

\* the element of a singleton set: Only({e(x) : x \in {v}}) is e(v) with v
\* computed once
Only(S) == CHOOSE x \in S : TRUE

\* Memory::mem_read_u16 on the bus; pos + 1 overflows at the top of memory
mem_read_u16(b, pos, overflow_checks) ==
    Only({IF lo.panic \/ (pos = 65535 /\ overflow_checks)
          THEN [bus |-> lo.bus, val |-> 0, panic |-> TRUE]
          ELSE Only({[bus |-> hi.bus, val |-> hi.val * 256 + lo.val, panic |-> hi.panic] :
                        hi \in {mem_read(lo.bus, wrapping_add_u16(pos, 1))}}) :
             lo \in {mem_read(b, pos)}})

\* CPU::reset as it would be if the accumulator and the flags were kept
CPU_reset_keeps_a(c, b, overflow_checks) ==
    Only({[cpu |-> [c EXCEPT !.register_x = 0, !.register_y = 0,
                             !.register_s = 253,
                             !.program_counter = v.val],
           bus |-> v.bus, panic |-> v.panic] :
             v \in {mem_read_u16(b, 65532, overflow_checks)}})

CPU_reset(c, b, overflow_checks) ==
    Only({[cpu |-> [c EXCEPT !.register_a = 0, !.register_x = 0, !.register_y = 0,
                             !.register_s = 253, !.status = 36,
                             !.program_counter = v.val],
           bus |-> v.bus, panic |-> v.panic] :
             v \in {mem_read_u16(b, 65532, overflow_checks)}})

update_zero_and_negative_flags(status, result) ==
    set_flag(set_flag(status, ZERO, result = 0), NEGATIVE, BitAnd(result, 128) # 0)

CARRY == 1

DECIMAL == 8

OVERFLOW == 64

BranchOpcodes == {144, 176, 240, 48, 208, 16, 80, 112}

\* the bytes that have no entry in CPU_OP_CODES
UndefinedOpcodes ==
    {2, 18, 34, 50, 66, 82, 98, 107, 114, 139, 146, 147, 155, 156, 158,
     159, 171, 178, 187, 203, 210, 242}

\* the bytes that have an entry in CPU_OP_CODES; each of them has an arm in
\* the match of the run loop
ModelledOpcodes == (0..255) \ UndefinedOpcodes

\* OPCODES_MAP.get as it would be if a missing entry were read as NOP
OPCODES_MAP_get_or_nop(code) ==
    IF code \in UndefinedOpcodes THEN Some(234) ELSE Some(code)

\* OPCODES_MAP.get: the descriptor of a byte, identified by its code
OPCODES_MAP_get(code) ==
    IF code \in UndefinedOpcodes THEN None ELSE Some(code)

\* OpCode.len
OpLen(code) ==
    CASE code \in {0, 8, 10, 24, 26, 40, 42, 56, 58, 64, 72, 74, 88, 90, 96, 104, 106,
                   120, 122, 136, 138, 152, 154, 168, 170, 184, 186, 200, 202, 216,
                   218, 232, 234, 248, 250} -> 1
      [] code \in {1, 3, 4, 5, 6, 7, 9, 11, 16, 17, 19, 20, 21, 22, 23, 33, 35, 36,
                   37, 38, 39, 41, 43, 48, 49, 51, 52, 53, 54, 55, 65, 67, 68, 69, 70,
                   71, 73, 75, 80, 81, 83, 84, 85, 86, 87, 97, 99, 100, 101, 102, 103,
                   105, 112, 113, 115, 116, 117, 118, 119, 128, 129, 130, 131, 132,
                   133, 134, 135, 137, 144, 145, 148, 149, 150, 151, 160, 161, 162,
                   163, 164, 165, 166, 167, 169, 176, 177, 179, 180, 181, 182, 183,
                   192, 193, 194, 195, 196, 197, 198, 199, 201, 208, 209, 211, 212,
                   213, 214, 215, 224, 225, 226, 227, 228, 229, 230, 231, 233, 235,
                   240, 241, 243, 244, 245, 246, 247} -> 2
      [] code \in {12, 13, 14, 15, 25, 27, 28, 29, 30, 31, 32, 44, 45, 46, 47, 57, 59,
                   60, 61, 62, 63, 76, 77, 78, 79, 89, 91, 92, 93, 94, 95, 108, 109,
                   110, 111, 121, 123, 124, 125, 126, 127, 140, 141, 142, 143, 153,
                   157, 172, 173, 174, 175, 185, 188, 189, 190, 191, 204, 205, 206,
                   207, 217, 219, 220, 221, 222, 223, 236, 237, 238, 239, 249, 251,
                   252, 253, 254, 255} -> 3

\* u16 arithmetic of the run loop: an overflow-checked build panics where the
\* result leaves 0..65535, the other builds wrap
Fits(v) == v >= 0 /\ v <= 65535

Wrap(v) == (v + 65536) % 65536

\* push_to_stack as it would be with the stack in page zero
push_to_stack_page0(c, b, data) ==
    Only({[cpu |-> [c EXCEPT !.register_s = wrapping_sub_u8(c.register_s, 1)],
           bus |-> w.bus, panic |-> w.panic] :
             w \in {mem_write(b, c.register_s, data)}})

push_to_stack(c, b, data) ==
    Only({[cpu |-> [c EXCEPT !.register_s = wrapping_sub_u8(c.register_s, 1)],
           bus |-> w.bus, panic |-> w.panic] :
             w \in {mem_write(b, 256 + c.register_s, data)}})

push_to_stack_u16(c, b, data) ==
    Only({IF h.panic THEN h ELSE push_to_stack(h.cpu, h.bus, data % 256) :
             h \in {push_to_stack(c, b, data \div 256)}})

\* pop_stack as it would be if it read before moving the stack pointer
pop_stack_read_first(c, b) ==
    Only({[cpu |-> [c EXCEPT !.register_s = wrapping_add_u8(c.register_s, 1)],
           bus |-> r.bus, val |-> r.val, panic |-> r.panic] :
             r \in {mem_read(b, 256 + c.register_s)}})

pop_stack(c, b) ==
    Only({[cpu |-> [c EXCEPT !.register_s = wrapping_add_u8(c.register_s, 1)],
           bus |-> r.bus, val |-> r.val, panic |-> r.panic] :
             r \in {mem_read(b, 256 + wrapping_add_u8(c.register_s, 1))}})

pop_stack_u16(c, b) ==
    Only({IF lo.panic THEN lo
          ELSE Only({[cpu |-> hi.cpu, bus |-> hi.bus,
                      val |-> hi.val * 256 + lo.val, panic |-> hi.panic] :
                        hi \in {pop_stack(lo.cpu, lo.bus)}}) :
             lo \in {pop_stack(c, b)}})

lda_immediate(c, b) ==
    Only({[cpu |-> [c EXCEPT !.register_a = r.val,
                             !.status = update_zero_and_negative_flags(c.status, r.val)],
           bus |-> r.bus, panic |-> r.panic] :
             r \in {mem_read(b, c.program_counter)}})

ldx_immediate(c, b) ==
    Only({[cpu |-> [c EXCEPT !.register_x = r.val,
                             !.status = update_zero_and_negative_flags(c.status, r.val)],
           bus |-> r.bus, panic |-> r.panic] :
             r \in {mem_read(b, c.program_counter)}})

sta_absolute(c, b, overflow_checks) ==
    Only({IF t.panic THEN [cpu |-> c, bus |-> t.bus, panic |-> TRUE]
          ELSE Only({[cpu |-> c, bus |-> w.bus, panic |-> w.panic] :
                        w \in {mem_write(t.bus, t.val, c.register_a)}}) :
             t \in {mem_read_u16(b, c.program_counter, overflow_checks)}})

\* calculate_jmp_indirect_bug as it would be without the page-wrap defect of
\* the 6502
calculate_jmp_indirect_no_bug(b, lo_addr) ==
    Only({IF lo.panic THEN [bus |-> lo.bus, val |-> 0, panic |-> TRUE]
          ELSE Only({[bus |-> hi.bus, val |-> hi.val * 256 + lo.val, panic |-> hi.panic] :
                        hi \in {mem_read(lo.bus, wrapping_add_u16(lo_addr, 1))}}) :
             lo \in {mem_read(b, lo_addr)}})

calculate_jmp_indirect_bug(b, lo_addr) ==
    Only({IF lo.panic THEN [bus |-> lo.bus, val |-> 0, panic |-> TRUE]
          ELSE Only({[bus |-> hi.bus, val |-> hi.val * 256 + lo.val, panic |-> hi.panic] :
                        hi \in {mem_read(lo.bus,
                                         IF lo_addr % 256 = 255
                                         THEN lo_addr - 255
                                         ELSE lo_addr + 1)}}) :
             lo \in {mem_read(b, lo_addr)}})

\* jmp(true): the absolute jump
jmp(c, b, overflow_checks) ==
    Only({[cpu |-> [c EXCEPT !.program_counter = Wrap(t.val - 2)],
           bus |-> t.bus,
           panic |-> t.panic \/ (overflow_checks /\ ~Fits(t.val - 2))] :
             t \in {mem_read_u16(b, c.program_counter, overflow_checks)}})

\* jmp(false): the indirect jump
jmp_indirect(c, b, overflow_checks) ==
    Only({IF p.panic THEN [cpu |-> c, bus |-> p.bus, panic |-> TRUE]
          ELSE Only({[cpu |-> [c EXCEPT !.program_counter = Wrap(t.val - 2)],
                      bus |-> t.bus,
                      panic |-> t.panic \/ (overflow_checks /\ ~Fits(t.val - 2))] :
                        t \in {calculate_jmp_indirect_bug(p.bus, p.val)}}) :
             p \in {mem_read_u16(b, c.program_counter, overflow_checks)}})

jsr(c, b, overflow_checks) ==
    IF overflow_checks /\ ~Fits(c.program_counter + 2)
    THEN [cpu |-> c, bus |-> b, panic |-> TRUE]
    ELSE Only({IF s.panic THEN s
               ELSE Only({[cpu |-> [s.cpu EXCEPT !.program_counter = Wrap(t.val - 2)],
                           bus |-> t.bus,
                           panic |-> t.panic \/ (overflow_checks /\ ~Fits(t.val - 2))] :
                             t \in {mem_read_u16(s.bus, s.cpu.program_counter, overflow_checks)}}) :
                  s \in {push_to_stack_u16(c, b, Wrap(Wrap(c.program_counter + 2) - 1))}})

rts(c, b, overflow_checks) ==
    Only({[cpu |-> [r.cpu EXCEPT !.program_counter = Wrap(r.val + 1)],
           bus |-> r.bus,
           panic |-> r.panic \/ (overflow_checks /\ ~Fits(r.val + 1))] :
             r \in {pop_stack_u16(c, b)}})

pla(c, b) ==
    Only({[cpu |-> [r.cpu EXCEPT !.register_a = r.val,
                                 !.status = update_zero_and_negative_flags(c.status, r.val)],
           bus |-> r.bus, panic |-> r.panic] :
             r \in {pop_stack(c, b)}})

php(c, b) ==
    push_to_stack(c, b, set_flag(set_flag(c.status, BREAK2, TRUE), BREAK1, TRUE))

\* plp as it would be if the popped byte became the status unchanged;
\* CPUFlags names all eight bits, so from_bits never fails
plp_keeps_break(c, b) ==
    Only({[cpu |-> [r.cpu EXCEPT !.status = r.val],
           bus |-> r.bus, panic |-> r.panic] :
             r \in {pop_stack(c, b)}})

plp(c, b) ==
    Only({[cpu |-> [r.cpu EXCEPT !.status =
                        set_flag(set_flag(r.val, BREAK1, TRUE), BREAK2, FALSE)],
           bus |-> r.bus, panic |-> r.panic] :
             r \in {pop_stack(c, b)}})

rti(c, b) ==
    Only({IF s.panic THEN s
          ELSE Only({[cpu |-> [r.cpu EXCEPT !.program_counter = r.val],
                      bus |-> r.bus, panic |-> r.panic] :
                        r \in {pop_stack_u16(s.cpu, s.bus)}}) :
             s \in {plp(c, b)}})

\* the offset a branch adds to the program counter: the sign-extended
\* operand when the branch is taken, 0 when it is not
branch_offset(c, b, taken) ==
    IF taken
    THEN Only({[bus |-> d.bus,
                val |-> IF BitAnd(128, d.val) = 0 THEN d.val ELSE BitOr(d.val, 255 * 256),
                panic |-> d.panic] :
                  d \in {mem_read(b, c.program_counter)}})
    ELSE [bus |-> b, val |-> 0, panic |-> FALSE]

calculate_branch_offset_clear(c, b, condition) ==
    branch_offset(c, b, BitAnd(c.status, condition) = 0)

\* calculate_branch_offset_set as it would be if the operand were unsigned
calculate_branch_offset_set_unsigned(c, b, condition) ==
    IF BitAnd(c.status, condition) # 0
    THEN Only({[bus |-> d.bus, val |-> d.val, panic |-> d.panic] :
                  d \in {mem_read(b, c.program_counter)}})
    ELSE [bus |-> b, val |-> 0, panic |-> FALSE]

calculate_branch_offset_set(c, b, condition) ==
    branch_offset(c, b, BitAnd(c.status, condition) # 0)

\* a branch arm: program_counter.wrapping_add(offset)
branch(c, off) ==
    [cpu |-> [c EXCEPT !.program_counter = wrapping_add_u16(c.program_counter, off.val)],
     bus |-> off.bus, panic |-> off.panic]

\* add_to_acc_with_carry as it would be if the carry flag were not added
add_to_acc_without_carry(c, data) ==
    LET sum == c.register_a + data
        result == sum % 256
        st1 == set_flag(c.status, CARRY, sum > 255)
        st2 == set_flag(st1, OVERFLOW,
                        BitAnd(BitAnd(BitXor(c.register_a, result),
                                      BitXor(data, result)), 128) # 0)
    IN [c EXCEPT !.register_a = result,
                 !.status = update_zero_and_negative_flags(st2, result)]

add_to_acc_with_carry(c, data) ==
    LET sum == c.register_a + data + (IF BitAnd(c.status, CARRY) # 0 THEN 1 ELSE 0)
        result == sum % 256
        st1 == set_flag(c.status, CARRY, sum > 255)
        st2 == set_flag(st1, OVERFLOW,
                        BitAnd(BitAnd(BitXor(c.register_a, result),
                                      BitXor(data, result)), 128) # 0)
    IN [c EXCEPT !.register_a = result,
                 !.status = update_zero_and_negative_flags(st2, result)]

adc_immediate(c, b) ==
    Only({[cpu |-> add_to_acc_with_carry(c, r.val), bus |-> r.bus, panic |-> r.panic] :
             r \in {mem_read(b, c.program_counter)}})

(***************************************************************************)
(* The opcode table: addressing mode and length of every descriptor        *)
(***************************************************************************)
\* OpCode.mode: the descriptors of CPU_OP_CODES by their AddressingMode
OpMode(code) ==
    CASE code \in {9, 11, 41, 43, 73, 75, 105, 128, 130, 137, 160, 162, 169, 192, 194,
                   201, 224, 226, 233, 235} -> "Immediate"
      [] code \in {4, 5, 6, 7, 36, 37, 38, 39, 68, 69, 70, 71, 100, 101, 102, 103,
                   132, 133, 134, 135, 164, 165, 166, 167, 196, 197, 198, 199, 228,
                   229, 230, 231} -> "ZeroPage"
      [] code \in {20, 21, 22, 23, 52, 53, 54, 55, 84, 85, 86, 87, 116, 117, 118, 119,
                   148, 149, 180, 181, 212, 213, 214, 215, 244, 245, 246, 247} -> "ZeroPage_X"
      [] code \in {150, 151, 182, 183} -> "ZeroPage_Y"
      [] code \in {12, 13, 14, 15, 32, 44, 45, 46, 47, 76, 77, 78, 79, 109, 110, 111,
                   140, 141, 142, 143, 172, 173, 174, 175, 204, 205, 206, 207, 236,
                   237, 238, 239} -> "Absolute"
      [] code \in {28, 29, 30, 31, 60, 61, 62, 63, 92, 93, 94, 95, 124, 125, 126, 127,
                   157, 188, 189, 220, 221, 222, 223, 252, 253, 254, 255} -> "Absolute_X"
      [] code \in {25, 27, 57, 59, 89, 91, 121, 123, 153, 185, 190, 191, 217, 219,
                   249, 251} -> "Absolute_Y"
      [] code \in {1, 3, 33, 35, 65, 67, 97, 99, 129, 131, 161, 163, 193, 195, 225, 227} -> "Indirect_X"
      [] code \in {17, 19, 49, 51, 81, 83, 113, 115, 145, 177, 179, 209, 211, 241, 243} -> "Indirect_Y"
      [] OTHER -> "NoneAddressing"


\* get_operand_address_from_base: the operand address of an instruction
\* whose operand bytes start at base.  The pointer bytes of the indirect
\* modes are read from page zero, which is RAM: those reads leave the bus as
\* it is.
get_operand_address_from_base(c, b, mode, base, overflow_checks) ==
    CASE mode = "Immediate" -> [bus |-> b, val |-> base, panic |-> FALSE]
      [] mode = "ZeroPage" -> mem_read(b, base)
      [] mode = "Absolute" -> mem_read_u16(b, base, overflow_checks)
      [] mode = "ZeroPage_X" ->
            Only({[pos EXCEPT !.val = wrapping_add_u8(pos.val, c.register_x)] :
                     pos \in {mem_read(b, base)}})
      [] mode = "ZeroPage_Y" ->
            Only({[pos EXCEPT !.val = wrapping_add_u8(pos.val, c.register_y)] :
                     pos \in {mem_read(b, base)}})
      [] mode = "Absolute_X" ->
            Only({[pos EXCEPT !.val = wrapping_add_u16(pos.val, c.register_x)] :
                     pos \in {mem_read_u16(b, base, overflow_checks)}})
      [] mode = "Absolute_Y" ->
            Only({[pos EXCEPT !.val = wrapping_add_u16(pos.val, c.register_y)] :
                     pos \in {mem_read_u16(b, base, overflow_checks)}})
      [] mode = "Indirect_X" ->
            Only({[bus |-> z.bus,
                   val |-> mem_read(z.bus, wrapping_add_u8(ptr, 1)).val * 256
                              + mem_read(z.bus, ptr).val,
                   panic |-> z.panic] :
                     z \in {mem_read(b, base)},
                     ptr \in {wrapping_add_u8(mem_read(b, base).val, c.register_x)}})
      [] mode = "Indirect_Y" ->
            Only({[bus |-> z.bus,
                   val |-> wrapping_add_u16(
                              mem_read(z.bus, wrapping_add_u8(z.val, 1)).val * 256
                                 + mem_read(z.bus, z.val).val,
                              c.register_y),
                   panic |-> z.panic] :
                     z \in {mem_read(b, base)}})
      [] OTHER -> [bus |-> b, val |-> 0, panic |-> TRUE]

\* get_operand_address: the operand bytes are at the program counter
get_operand_address(c, b, mode, overflow_checks) ==
    get_operand_address_from_base(c, b, mode, c.program_counter, overflow_checks)

\* the operand address of the instruction code that has come to r, an
\* outcome of the arm so far; a panic before it ends the instruction
Operand(r, code, overflow_checks) ==
    IF r.panic
    THEN [bus |-> r.bus, val |-> 0, panic |-> TRUE]
    ELSE get_operand_address(r.cpu, r.bus, OpMode(code), overflow_checks)

\* mem_read(addr) of an instruction body whose operand address is a
OperandRead(a) ==
    IF a.panic THEN [bus |-> a.bus, val |-> 0, panic |-> TRUE] ELSE mem_read(a.bus, a.val)

\* the end of a body that read r and leaves the registers c1
Loaded(c, r, c1) == [cpu |-> IF r.panic THEN c ELSE c1, bus |-> r.bus, panic |-> r.panic]

\* mem_write(addr, data) of a body that read r at a, and its registers c1
Stored(c, a, r, c1, data) ==
    IF r.panic
    THEN [cpu |-> c, bus |-> r.bus, panic |-> TRUE]
    ELSE Only({[cpu |-> c1, bus |-> w.bus, panic |-> w.panic] :
                  w \in {mem_write(r.bus, a.val, data)}})

\* a register result with the zero and negative flags of it
WithZN(c, result) == [c EXCEPT !.status = update_zero_and_negative_flags(c.status, result)]

adc(c, a) ==
    Only({Loaded(c, r, add_to_acc_with_carry(c, r.val)) : r \in {OperandRead(a)}})

and(c, a) ==
    Only({Loaded(c, r, WithZN([c EXCEPT !.register_a = BitAnd(c.register_a, r.val)],
                              BitAnd(c.register_a, r.val))) :
             r \in {OperandRead(a)}})

shift_left(c, data) ==
    [cpu |-> WithZN([c EXCEPT !.status = set_flag(c.status, CARRY, BitAnd(data, 128) > 0)],
                    (data * 2) % 256),
     val |-> (data * 2) % 256]

asl_acc(c) ==
    Only({[s.cpu EXCEPT !.register_a = s.val] : s \in {shift_left(c, c.register_a)}})

asl(c, a) ==
    Only({Only({Stored(c, a, r, s.cpu, s.val) : s \in {shift_left(c, r.val)}}) :
             r \in {OperandRead(a)}})

axs(c, a) ==
    Stored(c, a, [bus |-> a.bus, panic |-> a.panic], c, BitAnd(c.register_x, c.register_a))

bit(c, a) ==
    Only({Loaded(c, r,
                 [c EXCEPT !.status =
                     set_flag(set_flag(set_flag(c.status, ZERO,
                                                BitAnd(c.register_a, r.val) = 0),
                                       OVERFLOW, BitAnd(r.val, 64) > 0),
                              NEGATIVE, BitAnd(r.val, 128) > 0)]) :
             r \in {OperandRead(a)}})

dec(c, a) ==
    Only({Stored(c, a, r, WithZN(c, wrapping_sub_u8(r.val, 1)), wrapping_sub_u8(r.val, 1)) :
             r \in {OperandRead(a)}})

eor(c, a) ==
    Only({Loaded(c, r, WithZN([c EXCEPT !.register_a = BitXor(c.register_a, r.val)],
                              BitXor(c.register_a, r.val))) :
             r \in {OperandRead(a)}})

lda(c, a) ==
    Only({Loaded(c, r, WithZN([c EXCEPT !.register_a = r.val], r.val)) :
             r \in {OperandRead(a)}})

ldx(c, a) ==
    Only({Loaded(c, r, WithZN([c EXCEPT !.register_x = r.val], r.val)) :
             r \in {OperandRead(a)}})

ldy(c, a) ==
    Only({Loaded(c, r, WithZN([c EXCEPT !.register_y = r.val], r.val)) :
             r \in {OperandRead(a)}})

shift_right(c, data) ==
    [cpu |-> WithZN([c EXCEPT !.status = set_flag(c.status, CARRY, BitAnd(data, 1) > 0)],
                    data \div 2),
     val |-> data \div 2]

lsr_acc(c) ==
    Only({[s.cpu EXCEPT !.register_a = s.val] : s \in {shift_right(c, c.register_a)}})

lsr(c, a) ==
    Only({Only({Stored(c, a, r, s.cpu, s.val) : s \in {shift_right(c, r.val)}}) :
             r \in {OperandRead(a)}})

tax(c) == WithZN([c EXCEPT !.register_x = c.register_a], c.register_a)

inc(c, a) ==
    Only({Stored(c, a, r, WithZN(c, wrapping_add_u8(r.val, 1)), wrapping_add_u8(r.val, 1)) :
             r \in {OperandRead(a)}})

ora(c, a) ==
    Only({Loaded(c, r, WithZN([c EXCEPT !.register_a = BitOr(c.register_a, r.val)],
                              BitOr(c.register_a, r.val))) :
             r \in {OperandRead(a)}})

\* rotate_left: it sets the carry and negative flags, and not the zero flag
rotate_left(c, data) ==
    LET result == BitOr((data * 2) % 256, IF BitAnd(c.status, CARRY) # 0 THEN 1 ELSE 0)
    IN [cpu |-> [c EXCEPT !.status =
                    set_flag(set_flag(c.status, CARRY, data \div 128 = 1),
                             NEGATIVE, result \div 128 = 1)],
        val |-> result]

rol(c, a) ==
    Only({Only({Stored(c, a, r, s.cpu, s.val) : s \in {rotate_left(c, r.val)}}) :
             r \in {OperandRead(a)}})

\* rotate_right: it sets the carry and negative flags, and not the zero flag
rotate_right(c, data) ==
    LET result == BitOr(data \div 2, IF BitAnd(c.status, CARRY) # 0 THEN 128 ELSE 0)
    IN [cpu |-> [c EXCEPT !.status =
                    set_flag(set_flag(c.status, CARRY, BitAnd(data, 1) = 1),
                             NEGATIVE, result \div 128 = 1)],
        val |-> result]

ror(c, a) ==
    Only({Only({Stored(c, a, r, s.cpu, s.val) : s \in {rotate_right(c, r.val)}}) :
             r \in {OperandRead(a)}})

\* the arms of 0x2A and 0x6A: the accumulator takes the rotated byte s and
\* the zero flag is set from it
rotated_acc(s) ==
    [s.cpu EXCEPT !.register_a = s.val,
                  !.status = set_flag(s.cpu.status, ZERO, s.val = 0)]

sbc(c, a) ==
    Only({Loaded(c, r, add_to_acc_with_carry(c, 255 - r.val)) : r \in {OperandRead(a)}})

sta(c, a) == Stored(c, a, [bus |-> a.bus, panic |-> a.panic], c, c.register_a)

stx(c, a) == Stored(c, a, [bus |-> a.bus, panic |-> a.panic], c, c.register_x)

sty(c, a) == Stored(c, a, [bus |-> a.bus, panic |-> a.panic], c, c.register_y)

compare(c, register, a) ==
    Only({Loaded(c, r,
                 [c EXCEPT !.status =
                     set_flag(set_flag(set_flag(c.status, CARRY, register >= r.val),
                                       NEGATIVE,
                                       BitAnd(wrapping_sub_u8(register, r.val), 128) > 0),
                              ZERO, wrapping_sub_u8(register, r.val) = 0)]) :
             r \in {OperandRead(a)}})

\* a register-only arm
Registers(c, b) == [cpu |-> c, bus |-> b, panic |-> FALSE]

\* the arm so far when nothing has run yet
Entered(c, b) == [cpu |-> c, bus |-> b, panic |-> FALSE]

\* a register-only instruction, giving c1, at the end of an arm that has come to r
AndThen(r, c1) == IF r.panic THEN r ELSE [r EXCEPT !.cpu = c1]

\* the codes of the arms of the match that run an instruction body on the
\* operand of the descriptor's mode
NopOpcodes ==
    {234, 26, 58, 90, 122, 218, 250,
     4, 20, 52, 68, 84, 100, 116, 128, 130, 137, 194, 212, 226, 244,
     12, 28, 60, 92, 124, 220, 252}

AdcOpcodes == {101, 117, 109, 125, 121, 97, 113}

AncOpcodes == {11, 43}

AndOpcodes == {41, 37, 53, 45, 61, 57, 33, 49}

AslOpcodes == {6, 22, 14, 30}

AxsOpcodes == {135, 151, 131, 143}

CmpOpcodes == {201, 197, 213, 205, 221, 217, 193, 209}

DcpOpcodes == {199, 215, 207, 223, 219, 195, 211}

DecOpcodes == {198, 214, 206, 222}

EorOpcodes == {73, 69, 85, 77, 93, 89, 65, 81}

IncOpcodes == {230, 246, 238, 254}

IsbOpcodes == {231, 247, 239, 255, 251, 227, 243}

LaxOpcodes == {167, 183, 175, 191, 163, 179}

LdaOpcodes == {165, 181, 173, 189, 185, 161, 177}

LsrOpcodes == {70, 86, 78, 94}

OraOpcodes == {9, 5, 21, 13, 29, 25, 1, 17}

RlaOpcodes == {39, 55, 47, 63, 59, 35, 51}

RolOpcodes == {38, 54, 46, 62}

RorOpcodes == {102, 118, 110, 126}

RraOpcodes == {103, 119, 111, 127, 123, 99, 115}

SbcOpcodes == {235, 233, 229, 245, 237, 253, 249, 225, 241}

SloOpcodes == {7, 23, 15, 31, 27, 3, 19}

SreOpcodes == {71, 87, 79, 95, 91, 67, 83}

StaOpcodes == {133, 149, 157, 153, 129, 145}

\* the codes of the arms of the match that call an instruction body on the
\* operand of the addressing mode
OperandOpcodes ==
    AdcOpcodes \cup AncOpcodes \cup {75} \cup AndOpcodes \cup AslOpcodes \cup AxsOpcodes
        \cup {36, 44} \cup CmpOpcodes \cup {224, 228, 236} \cup {192, 196, 204}
        \cup DcpOpcodes \cup DecOpcodes \cup EorOpcodes \cup IncOpcodes \cup IsbOpcodes
        \cup LaxOpcodes \cup LdaOpcodes \cup {166, 182, 174, 190}
        \cup {160, 164, 180, 172, 188} \cup LsrOpcodes \cup OraOpcodes \cup RlaOpcodes
        \cup RraOpcodes \cup RolOpcodes \cup RorOpcodes \cup SbcOpcodes \cup SloOpcodes
        \cup SreOpcodes \cup StaOpcodes \cup {134, 150, 142} \cup {132, 148, 140}

\* the arms whose second call is a body that resolves the operand again
TwoBodyOpcodes ==
    DcpOpcodes \cup IsbOpcodes \cup SloOpcodes \cup RlaOpcodes \cup SreOpcodes \cup RraOpcodes

\* the first (or only) call of an arm of the match: the body on the operand
\* address a
operand_arm(c, a, code) ==
    CASE code \in AdcOpcodes -> adc(c, a)
      [] code \in AncOpcodes \cup {75} \cup AndOpcodes -> and(c, a)
      [] code \in AslOpcodes \cup SloOpcodes -> asl(c, a)
      [] code \in AxsOpcodes -> axs(c, a)
      [] code \in {36, 44} -> bit(c, a)
      [] code \in CmpOpcodes \cup {224, 228, 236} \cup {192, 196, 204} ->
            compare(c, CASE code \in CmpOpcodes -> c.register_a
                         [] code \in {224, 228, 236} -> c.register_x
                         [] OTHER -> c.register_y, a)
      [] code \in DcpOpcodes \cup DecOpcodes -> dec(c, a)
      [] code \in EorOpcodes -> eor(c, a)
      [] code \in IncOpcodes \cup IsbOpcodes -> inc(c, a)
      [] code \in LaxOpcodes \cup LdaOpcodes -> lda(c, a)
      [] code \in {166, 182, 174, 190} -> ldx(c, a)
      [] code \in {160, 164, 180, 172, 188} -> ldy(c, a)
      [] code \in LsrOpcodes \cup SreOpcodes -> lsr(c, a)
      [] code \in OraOpcodes -> ora(c, a)
      [] code \in RlaOpcodes \cup RolOpcodes -> rol(c, a)
      [] code \in RraOpcodes \cup RorOpcodes -> ror(c, a)
      [] code \in SbcOpcodes -> sbc(c, a)
      [] code \in StaOpcodes -> sta(c, a)
      [] code \in {134, 150, 142} -> stx(c, a)
      [] code \in {132, 148, 140} -> sty(c, a)

\* the second body of an arm that has two, on the operand address a
second_body(c, a, code) ==
    CASE code \in DcpOpcodes -> compare(c, c.register_a, a)
      [] code \in IsbOpcodes -> sbc(c, a)
      [] code \in SloOpcodes -> ora(c, a)
      [] code \in RlaOpcodes -> and(c, a)
      [] code \in SreOpcodes -> eor(c, a)
      [] code \in RraOpcodes -> adc(c, a)

\* what an arm of the match does after its first call, which ended in r
operand_arm_rest(r, code, overflow_checks) ==
    CASE code \in AncOpcodes ->
            AndThen(r, [r.cpu EXCEPT !.status = set_flag(r.cpu.status, CARRY,
                                                         r.cpu.register_a \div 128 = 1)])
      [] code = 75 -> AndThen(r, lsr_acc(r.cpu))
      [] code \in LaxOpcodes -> AndThen(r, tax(r.cpu))
      [] code \in TwoBodyOpcodes ->
            Only({second_body(r.cpu, a, code) : a \in {Operand(r, code, overflow_checks)}})
      [] OTHER -> r

\* the arm of the match on opcode.code, entered with the program counter
\* past the opcode
execute(code, c1, b, overflow_checks) ==
    CASE code = 169 -> lda_immediate(c1, b)
      [] code = 162 -> ldx_immediate(c1, b)
      [] code = 141 -> sta_absolute(c1, b, overflow_checks)
      [] code = 76 -> jmp(c1, b, overflow_checks)
      [] code = 108 -> jmp_indirect(c1, b, overflow_checks)
      [] code = 32 -> jsr(c1, b, overflow_checks)
      [] code = 96 -> rts(c1, b, overflow_checks)
      [] code = 64 -> rti(c1, b)
      [] code = 72 -> push_to_stack(c1, b, c1.register_a)
      [] code = 104 -> pla(c1, b)
      [] code = 8 -> php(c1, b)
      [] code = 40 -> plp(c1, b)
      [] code = 105 -> adc_immediate(c1, b)
      [] code = 144 -> branch(c1, calculate_branch_offset_clear(c1, b, CARRY))
      [] code = 176 -> branch(c1, calculate_branch_offset_set(c1, b, CARRY))
      [] code = 240 -> branch(c1, calculate_branch_offset_set(c1, b, ZERO))
      [] code = 48 -> branch(c1, calculate_branch_offset_set(c1, b, NEGATIVE))
      [] code = 208 -> branch(c1, calculate_branch_offset_clear(c1, b, ZERO))
      [] code = 16 -> branch(c1, calculate_branch_offset_clear(c1, b, NEGATIVE))
      [] code = 80 -> branch(c1, calculate_branch_offset_clear(c1, b, OVERFLOW))
      [] code = 112 -> branch(c1, calculate_branch_offset_set(c1, b, OVERFLOW))
      [] code = 154 -> [cpu |-> [c1 EXCEPT !.register_s = c1.register_x],
                        bus |-> b, panic |-> FALSE]
      [] code = 24 -> [cpu |-> [c1 EXCEPT !.status = set_flag(c1.status, CARRY, FALSE)],
                       bus |-> b, panic |-> FALSE]
      [] code = 56 -> [cpu |-> [c1 EXCEPT !.status = set_flag(c1.status, CARRY, TRUE)],
                       bus |-> b, panic |-> FALSE]
      [] code = 216 -> [cpu |-> [c1 EXCEPT !.status = set_flag(c1.status, DECIMAL, FALSE)],
                        bus |-> b, panic |-> FALSE]
      [] code = 248 -> [cpu |-> [c1 EXCEPT !.status = set_flag(c1.status, DECIMAL, TRUE)],
                        bus |-> b, panic |-> FALSE]
      [] code \in NopOpcodes -> Registers(c1, b)
      [] code = 10 -> Registers(asl_acc(c1), b)
      [] code = 88 -> Registers([c1 EXCEPT !.status = set_flag(c1.status, INTERRUPT, FALSE)], b)
      [] code = 184 -> Registers([c1 EXCEPT !.status = set_flag(c1.status, OVERFLOW, FALSE)], b)
      [] code = 202 -> Registers(WithZN([c1 EXCEPT !.register_x = wrapping_sub_u8(c1.register_x, 1)], wrapping_sub_u8(c1.register_x, 1)), b)
      [] code = 136 -> Registers(WithZN([c1 EXCEPT !.register_y = wrapping_sub_u8(c1.register_y, 1)], wrapping_sub_u8(c1.register_y, 1)), b)
      [] code = 232 -> Registers(WithZN([c1 EXCEPT !.register_x = wrapping_add_u8(c1.register_x, 1)], wrapping_add_u8(c1.register_x, 1)), b)
      [] code = 200 -> Registers(WithZN([c1 EXCEPT !.register_y = wrapping_add_u8(c1.register_y, 1)], wrapping_add_u8(c1.register_y, 1)), b)
      [] code = 74 -> Registers(lsr_acc(c1), b)
      [] code = 42 -> Registers(rotated_acc(rotate_left(c1, c1.register_a)), b)
      [] code = 106 -> Registers(rotated_acc(rotate_right(c1, c1.register_a)), b)
      [] code = 120 -> Registers([c1 EXCEPT !.status = set_flag(c1.status, INTERRUPT, TRUE)], b)
      [] code = 170 -> Registers(tax(c1), b)
      [] code = 168 -> Registers(WithZN([c1 EXCEPT !.register_y = c1.register_a], c1.register_a), b)
      [] code = 186 -> Registers(WithZN([c1 EXCEPT !.register_x = c1.register_s], c1.register_s), b)
      [] code = 138 -> Registers(WithZN([c1 EXCEPT !.register_a = c1.register_x], c1.register_x), b)
      [] code = 152 -> Registers(WithZN([c1 EXCEPT !.register_a = c1.register_y], c1.register_y), b)
      [] code \in OperandOpcodes ->
            Only({operand_arm_rest(operand_arm(c1, a, code), code, overflow_checks) :
                     a \in {Operand(Entered(c1, b), code, overflow_checks)}})
      [] OTHER -> [cpu |-> c1, bus |-> b, panic |-> FALSE]

\* the step over the operands as it would be if the opcode byte were stepped
\* over a second time
step_over_whole_length(code, e, overflow_checks) ==
    LET pc2 == e.cpu.program_counter + OpLen(code)
    IN IF e.panic \/ (overflow_checks /\ ~Fits(pc2))
       THEN [cpu |-> e.cpu, bus |-> e.bus, panic |-> TRUE]
       ELSE [cpu |-> [e.cpu EXCEPT !.program_counter = Wrap(pc2)],
             bus |-> e.bus, panic |-> FALSE]

\* the step over the operands that ends an iteration
step_over(code, e, overflow_checks) ==
    LET pc2 == e.cpu.program_counter + OpLen(code) - 1
    IN IF e.panic \/ (overflow_checks /\ ~Fits(pc2))
       THEN [cpu |-> e.cpu, bus |-> e.bus, panic |-> TRUE]
       ELSE [cpu |-> [e.cpu EXCEPT !.program_counter = Wrap(pc2)],
             bus |-> e.bus, panic |-> FALSE]

\* the iteration once the byte f at the program counter has been fetched and
\* its descriptor d looked up: unwrap() of no descriptor panics before the
\* program counter moves; BRK returns
decoded(d, c, f, overflow_checks) ==
    IF d = None \/ (overflow_checks /\ ~Fits(c.program_counter + 1))
    THEN [cpu |-> c, bus |-> f.bus, panic |-> TRUE]
    ELSE IF d[1] = 0
    THEN [cpu |-> [c EXCEPT !.program_counter = Wrap(c.program_counter + 1)],
          bus |-> f.bus, panic |-> FALSE]
    ELSE Only({step_over(d[1], e, overflow_checks) :
                  e \in {execute(d[1],
                                 [c EXCEPT !.program_counter = Wrap(c.program_counter + 1)],
                                 f.bus, overflow_checks)}})

\* one iteration of the loop of CPU::run_with_callback with the empty callback
\* of CPU::run: fetch at the program counter, execute, step over the operands
CPU_step(c, b, overflow_checks) ==
    Only({IF f.panic THEN [cpu |-> c, bus |-> f.bus, panic |-> TRUE]
          ELSE Only({decoded(d, c, f, overflow_checks) : d \in {OPCODES_MAP_get(f.val)}}) :
             f \in {mem_read(b, c.program_counter)}})

(***************************************************************************)
\* a 16 KiB program ROM whose reset and NMI vectors point at 0x8000 / 0x8010:
\*   8000  LDA #$80 ; STA $2000 ; BRK ; NOP ; JMP $8006
\*   8010  NOP ; JMP $8006
TestProgram ==
    (0 :> 169) @@ (1 :> 128) @@ (2 :> 141) @@ (4 :> 32) @@ (6 :> 234)
        @@ (7 :> 76) @@ (8 :> 6) @@ (9 :> 128)
        @@ (16 :> 234) @@ (17 :> 76) @@ (18 :> 6) @@ (19 :> 128)

TestPrgRom ==
    [len |-> 16384,
     data |-> TestProgram @@ (16378 :> 16) @@ (16379 :> 128) @@ (16381 :> 128)]

\* a 32 KiB program ROM: the same program and vectors, the vectors in the
\* upper half, and bytes that tell the two halves apart
TestPrgRom32 ==
    [len |-> 32768,
     data |-> TestProgram @@ (16378 :> 1) @@ (16384 :> 77) @@ (16385 :> 78)
                  @@ (32762 :> 16) @@ (32763 :> 128) @@ (32765 :> 128)]

TestChrRom == [len |-> 8192, data |-> (0 :> 17) @@ (1 :> 34)]

TestRom(mirroring) ==
    [prg_rom |-> TestPrgRom, chr_rom |-> TestChrRom, screen_mirroring |-> mirroring]

Mirrorings == {"HORIZONTAL", "VERTICAL"}

\* the snapshots the host's frame callback may leave in the joypad
ButtonInputs == {0, 129}

InitWith(rom) ==
    /\ cpu = CPU_new
    /\ bus = Bus_new(rom)
    /\ panicked = FALSE
    /\ log = <<>>

(***************************************************************************)
(* PPU timing: the bus is clocked, and the control and status registers    *)
(* are accessed, in any order.                                             *)
(***************************************************************************)
\* cycle charges: the shortest and the longest instructions of the opcode
\* table that move the PPU by a number of dots coprime to the field length
Charges == {2, 7}

\* the clock stops after this many CPU cycles (one field is 29781 cycles)
MaxCycles == 30000

ControlInputs == {0, 128}

InitTiming == InitWith(TestRom("HORIZONTAL"))

\* the builds differ only where the u8 product overflows
OverflowChecks(c) == IF c * 3 > 255 THEN BOOLEAN ELSE {TRUE}

\* the callback's input matters only on the tick that ends a frame
CallbackButtons(c) ==
    IF bus.ppu.scanlines = FRAME_SCANLINES - 1 THEN ButtonInputs ELSE {0}

Tick(c) ==
    /\ ~panicked
    /\ bus.cycles + c <= MaxCycles
    /\ \E oc \in OverflowChecks(c), buttons \in CallbackButtons(c) :
          LET r == Bus_tick(bus, c, oc, buttons)
          IN /\ bus' = r.bus
             /\ panicked' = r.panic
    /\ UNCHANGED <<cpu, log>>

TickAny == \E c \in Charges : Tick(c)

ControlWrite(v) ==
    /\ ~panicked
    /\ LET r == mem_write(bus, PPUCTRL, v)
       IN /\ bus' = r.bus
          /\ panicked' = r.panic
    /\ UNCHANGED <<cpu, log>>

ControlWriteAny == \E v \in ControlInputs : ControlWrite(v)

StatusRead ==
    /\ ~panicked
    /\ LET r == mem_read(bus, PPUSTATUS)
       IN /\ bus' = r.bus
          /\ panicked' = r.panic
    /\ UNCHANGED <<cpu, log>>

PollNmi ==
    /\ ~panicked
    /\ bus' = poll_nmi_status(bus).bus
    /\ UNCHANGED <<cpu, panicked, log>>

\* the renderer's report of a sprite-0 hit: StatusRegister::set_sprite_0_hit
Sprite0Hit ==
    /\ ~panicked
    /\ bus' = [bus EXCEPT !.ppu.status = set_sprite_0_hit(bus.ppu.status, TRUE)]
    /\ UNCHANGED <<cpu, panicked, log>>

NextTiming == TickAny \/ ControlWriteAny \/ StatusRead \/ PollNmi \/ Sprite0Hit

SpecTiming == InitTiming /\ [][NextTiming]_vars

TypeTiming == bus.ppu.scanlines \in 0..261 /\ bus.ppu.cycles \in 0..340

(***************************************************************************)
(* Properties of PPU timing                                                *)
(***************************************************************************)
Dots(p) == SCANLINE_DOTS * p.scanlines + p.cycles

FieldDots == SCANLINE_DOTS * FRAME_SCANLINES

StatusBit(p, n) == Bit(p.status, n) = 1

\* the tick of c cycles moves the scanline counter to n
TickReaches(c, n) ==
    bus.ppu.cycles + 3 * c >= SCANLINE_DOTS /\ bus.ppu.scanlines + 1 = n

\* C2: PPU::tick returns true (the frame callback runs) exactly on the call in
\* which the scanline counter reaches 262 and is reset to 0, and false on
\* every other call; on that call the pending NMI, the VBlank bit and the
\* sprite-0-hit bit are all cleared.
C2_TickEndsFrame ==
    [][\A c \in Charges : Tick(c) =>
          /\ PPU_tick(bus.ppu, 3 * c).val = TickReaches(c, FRAME_SCANLINES)
          /\ (bus'.frames = bus.frames + 1) = TickReaches(c, FRAME_SCANLINES)
          /\ bus'.frames \in {bus.frames, bus.frames + 1}
          /\ TickReaches(c, FRAME_SCANLINES) =>
                /\ bus'.ppu.scanlines = 0
                /\ bus'.ppu.nmi_interrupt = None
                /\ ~StatusBit(bus'.ppu, 7)
                /\ ~StatusBit(bus'.ppu, 6)]_vars

\* a frame has just ended
C2_Witness == bus.frames = 1 /\ bus.ppu.scanlines = 0 /\ bus.ppu.status = 0

\* C3: on the tick that moves the scanline counter from 240 to 241 VBlank is
\* set, sprite-0-hit is cleared, and an NMI is pending afterwards iff the
\* generate_nmi bit of the control register is set; a tick that does not
\* enter scanline 241 neither sets VBlank nor raises an NMI.
C3_TickEntersVBlank ==
    [][\A c \in Charges : Tick(c) =>
          IF TickReaches(c, VBLANK_SCANLINE)
          THEN /\ StatusBit(bus'.ppu, 7)
               /\ ~StatusBit(bus'.ppu, 6)
               /\ (bus'.ppu.nmi_interrupt # None) = (Bit(bus.ppu.control, 7) = 1)
          ELSE /\ StatusBit(bus'.ppu, 7) => StatusBit(bus.ppu, 7)
               /\ bus'.ppu.nmi_interrupt # None => bus.ppu.nmi_interrupt # None]_vars

\* scanline 241 has been entered with NMI generation enabled
C3_Witness ==
    /\ bus.ppu.scanlines = VBLANK_SCANLINE
    /\ bus.ppu.cycles < 3 * 7
    /\ StatusBit(bus.ppu, 7)
    /\ bus.ppu.nmi_interrupt = Some(1)

C6_ControlWriteNmi ==
    [][\A v \in ControlInputs : ControlWrite(v) =>
          /\ bus'.ppu.control = v
          /\ bus'.ppu.nmi_interrupt =
                IF Bit(bus.ppu.control, 7) = 0 /\ Bit(v, 7) = 1 /\ StatusBit(bus.ppu, 7)
                THEN Some(1)
                ELSE bus.ppu.nmi_interrupt]_vars

\* NMI generation was enabled during VBlank, after scanline 241 was entered
C6_Witness ==
    /\ bus.ppu.scanlines > VBLANK_SCANLINE
    /\ Bit(bus.ppu.control, 7) = 1
    /\ StatusBit(bus.ppu, 7)
    /\ bus.ppu.nmi_interrupt = Some(1)

\* C7: read_status returns the status bits as they were before the read and
\* afterwards VBlank is clear; every other status bit and the pending-NMI
\* flag are unchanged.
C7_ReadStatus ==
    [][StatusRead =>
          /\ mem_read(bus, PPUSTATUS).val = bus.ppu.status
          /\ ~StatusBit(bus'.ppu, 7)
          /\ \A n \in 0..6 : Bit(bus'.ppu.status, n) = Bit(bus.ppu.status, n)
          /\ bus'.ppu.nmi_interrupt = bus.ppu.nmi_interrupt]_vars

\* VBlank has been read away while sprite-0-hit and a pending NMI remain
C7_Witness ==
    /\ bus.ppu.scanlines \in VBLANK_SCANLINE..(FRAME_SCANLINES - 1)
    /\ ~StatusBit(bus.ppu, 7)
    /\ StatusBit(bus.ppu, 6)
    /\ bus.ppu.nmi_interrupt = Some(1)

(***************************************************************************)
(* Bus calls recorded in the log                                           *)
(***************************************************************************)
Write(a, d) ==
    /\ ~panicked
    /\ LET r == mem_write(bus, a, d)
       IN /\ bus' = r.bus
          /\ panicked' = r.panic
    /\ log' = Append(log, [op |-> "write", addr |-> a, data |-> d, val |-> 0])
    /\ UNCHANGED cpu

Read(a) ==
    /\ ~panicked
    /\ LET r == mem_read(bus, a)
       IN /\ bus' = r.bus
          /\ panicked' = r.panic
          /\ log' = Append(log, [op |-> "read", addr |-> a, data |-> 0, val |-> r.val])
    /\ UNCHANGED cpu

(***************************************************************************)
(* OAM DMA: RAM is filled, the OAM address is set, and pages are           *)
(* transferred, in any order.                                              *)
(***************************************************************************)
MaxDmaOps == 3

DmaRamAddrs == {0, 255, 766, 767, 2047}

DmaBytes == {119, 136}

DmaOamAddrs == {16, 255}

DmaPages == {0, 2, 7, 8}

InitDma == InitWith(TestRom("HORIZONTAL"))

DmaRamWrite ==
    \E a \in DmaRamAddrs, d \in DmaBytes : Len(log) < MaxDmaOps /\ Write(a, d)

DmaOamAddr == \E v \in DmaOamAddrs : Len(log) < MaxDmaOps /\ Write(OAMADDR, v)

DmaTransfer == \E d \in DmaPages : Len(log) < MaxDmaOps /\ Write(OAMDMA, d)

DmaOamRead == Len(log) < MaxDmaOps /\ Read(OAMDATA)

NextDma == DmaRamWrite \/ DmaOamAddr \/ DmaTransfer \/ DmaOamRead

SpecDma == InitDma /\ [][NextDma]_vars

\* C1: a write of page d to 0x4014 copies the 256 bytes at CPU addresses
\* (d<<8)+i, i = 0..255, to OAM[(oam_addr + i) mod 256], and leaves oam_addr
\* at the value it had before the write.
C1_OamDmaCopies256 ==
    [][\A d \in DmaPages : Write(OAMDMA, d) =>
          /\ ~panicked'
          /\ \A i \in 0..255 :
                Get(bus'.ppu.oam_data, (bus.ppu.oam_addr + i) % 256)
                    = Get(bus.cpu_vram, (d * 256 + i) % CPU_VRAM_LEN)
          /\ bus'.ppu.oam_addr = bus.ppu.oam_addr]_vars

(***************************************************************************)
(* The write-toggle latches: 0x2006 and 0x2005 are written and 0x2002 is   *)
(* read, in any order.                                                     *)
(***************************************************************************)
MaxLatchOps == 5

LatchBytes == {5, 33, 99}

InitLatch == InitWith(TestRom("HORIZONTAL"))

LatchAddrWrite == \E b \in LatchBytes : Len(log) < MaxLatchOps /\ Write(PPUADDR, b)

LatchScrollWrite == \E b \in LatchBytes : Len(log) < MaxLatchOps /\ Write(PPUSCROLL, b)

LatchStatusRead == Len(log) < MaxLatchOps /\ Read(PPUSTATUS)

NextLatch == LatchAddrWrite \/ LatchScrollWrite \/ LatchStatusRead

SpecLatch == InitLatch /\ [][NextLatch]_vars

IsWrite(e, a) == e.op = "write" /\ e.addr = a

IsRead(e, a) == e.op = "read" /\ e.addr = a

\* the bytes written to register a, oldest first, among the calls of l
WritesTo(l, a) ==
    LET w == SelectSeq(l, LAMBDA e : IsWrite(e, a))
    IN [k \in 1..Len(w) |-> w[k].data]

\* the calls made after the last read of the status register (all calls if
\* it was never read)
StatusReads == {k \in 1..Len(log) : IsRead(log[k], PPUSTATUS)}

SinceStatusRead ==
    IF StatusReads = {} THEN log
    ELSE SubSeq(log, (CHOOSE k \in StatusReads : \A m \in StatusReads : m <= k) + 1,
                Len(log))

Concat14(hi, lo) == (hi * 256 + lo) % 16384

\* C8: after a read of 0x2002, whatever writes to 0x2006 or 0x2005 preceded
\* it, the next write to 0x2006 is taken as the high byte of the VRAM address
\* and the one after it as the low byte; likewise the next write to 0x2005 is
\* the first of a scroll pair.
C8_StatusReadResetsLatch ==
    StatusReads # {} =>
        LET wa == WritesTo(SinceStatusRead, PPUADDR)
            ws == WritesTo(SinceStatusRead, PPUSCROLL)
        IN /\ Len(wa) = 1 => /\ bus.ppu.addr.value \div 256 = wa[1] % 64
                             /\ bus.ppu.addr.latch
           /\ Len(wa) = 2 => /\ bus.ppu.addr.value = Concat14(wa[1], wa[2])
                             /\ ~bus.ppu.addr.latch
           /\ Len(ws) = 1 => /\ bus.ppu.scroll.scroll_x = ws[1]
                             /\ bus.ppu.scroll.latch
           /\ Len(ws) = 2 => /\ bus.ppu.scroll.scroll_x = ws[1]
                             /\ bus.ppu.scroll.scroll_y = ws[2]
                             /\ ~bus.ppu.scroll.latch

\* a status read between the first and the second write of a pair, followed
\* by a complete pair
C8_Witness ==
    /\ Len(log) = 4
    /\ IsWrite(log[1], PPUADDR)
    /\ IsRead(log[2], PPUSTATUS)
    /\ IsWrite(log[3], PPUADDR) /\ log[3].data = 99
    /\ IsWrite(log[4], PPUADDR) /\ log[4].data = 5
    /\ bus.ppu.addr.value = 8965

\* only 0x2006 has been written, at least twice
OnlyAddrWrites == Len(log) >= 2 /\ \A k \in 1..Len(log) : IsWrite(log[k], PPUADDR)

\* C9 as claimed: after any sequence of writes to 0x2006 the VRAM address is
\* the concatenation of the last two bytes written, masked to 14 bits.
C9_AddrIsLastTwoBytes ==
    OnlyAddrWrites =>
        bus.ppu.addr.value = Concat14(log[Len(log) - 1].data, log[Len(log)].data)

\* C9 as amended: after an even number of writes to 0x2006 since the latch
\* was last cleared (at power-on or by a read of 0x2002) the VRAM address is
\* the concatenation of the last two bytes written, masked to 14 bits.
C9_AddrIsLastPair ==
    LET wa == WritesTo(SinceStatusRead, PPUADDR)
        n == Len(wa)
    IN (n >= 2 /\ n % 2 = 0) => bus.ppu.addr.value = Concat14(wa[n - 1], wa[n])

\* two complete pairs, the second with a high byte beyond 14 bits
C9_Witness ==
    /\ Len(log) = 4
    /\ OnlyAddrWrites
    /\ log[3].data = 99 /\ log[4].data = 5
    /\ bus.ppu.addr.value = 8965

(***************************************************************************)
(* VRAM access: 0x2006 and 0x2007 are written and 0x2007 is read, in any   *)
(* order.                                                                  *)
(***************************************************************************)
MaxVramOps == 7

VramAddrBytes == {35, 47, 255}

VramData == {102}

InitVram == InitWith(TestRom("HORIZONTAL"))

VramAddrWrite == \E b \in VramAddrBytes : Len(log) < MaxVramOps /\ Write(PPUADDR, b)

VramDataWrite == \E b \in VramData : Len(log) < MaxVramOps /\ Write(PPUDATA, b)

VramDataRead == Len(log) < MaxVramOps /\ Read(PPUDATA)

NextVram == VramAddrWrite \/ VramDataWrite \/ VramDataRead

SpecVram == InitVram /\ [][NextVram]_vars

\* the log ends with: address pair, data write, the same address pair, two
\* data reads; the pair starts with the latch clear
EndsWithWriteReadBack ==
    LET n == Len(log) IN
    /\ n >= 7
    /\ IsWrite(log[n - 6], PPUADDR) /\ IsWrite(log[n - 5], PPUADDR)
    /\ IsWrite(log[n - 4], PPUDATA)
    /\ IsWrite(log[n - 3], PPUADDR) /\ IsWrite(log[n - 2], PPUADDR)
    /\ IsRead(log[n - 1], PPUDATA) /\ IsRead(log[n], PPUDATA)
    /\ log[n - 3].data = log[n - 6].data /\ log[n - 2].data = log[n - 5].data
    /\ Len(WritesTo(SubSeq(log, 1, n - 7), PPUADDR)) % 2 = 0
    /\ Concat14(log[n - 6].data, log[n - 5].data) \in 8192..12287

\* C10: for a VRAM address a in 0x2000-0x2FFF, writing b through PPUDATA at a,
\* re-loading the address with a and reading PPUDATA twice completes with the
\* second read returning b.
C10_WriteThenReadBack ==
    EndsWithWriteReadBack =>
        /\ ~panicked
        /\ log[Len(log)].val = log[Len(log) - 4].data

(***************************************************************************)
(* The CPU run loop: the CPU, reset on its bus, executes instructions      *)
(* while the host clocks the bus.                                          *)
(***************************************************************************)
\* the largest charge whose dot count fits the u8 argument of PPU::tick
CpuTickCharge == 85

NmiVector == 65530

InitCpu ==
    \E oc \in BOOLEAN :
        \E r \in {CPU_reset(CPU_new, Bus_new(TestRom("HORIZONTAL")), oc)} :
            /\ cpu = r.cpu
            /\ bus = r.bus
            /\ panicked = r.panic
            /\ log = <<>>

CpuStep ==
    /\ ~panicked
    /\ mem_read(bus, cpu.program_counter).val \in ModelledOpcodes
    /\ \E oc \in BOOLEAN :
          \E r \in {CPU_step(cpu, bus, oc)} :
              /\ cpu' = r.cpu
              /\ bus' = r.bus
              /\ panicked' = r.panic
    /\ UNCHANGED log

CpuTick ==
    /\ ~panicked
    /\ bus.cycles + CpuTickCharge <= MaxCycles
    /\ \E oc \in OverflowChecks(CpuTickCharge), buttons \in CallbackButtons(CpuTickCharge) :
          LET r == Bus_tick(bus, CpuTickCharge, oc, buttons)
          IN /\ bus' = r.bus
             /\ panicked' = r.panic
    /\ UNCHANGED <<cpu, log>>

\* the host resets the running CPU
CpuReset ==
    /\ ~panicked
    /\ \E oc \in BOOLEAN :
          \E r \in {CPU_reset(cpu, bus, oc)} :
              /\ cpu' = r.cpu
              /\ bus' = r.bus
              /\ panicked' = r.panic
    /\ UNCHANGED log

NextCpu == CpuStep \/ CpuTick \/ CpuReset

SpecCpu == InitCpu /\ [][NextCpu]_vars

\* C5: an iteration of the run loop that starts with an NMI pending takes the
\* NMI from the bus, pushes PC high, PC low and the status byte with bit 5
\* set and bit 4 clear, sets I, charges the bus at least 2 cycles, and
\* executes the instruction at the address held in the vector at 0xFFFA.
C5_NmiServicedBeforeFetch ==
    [][(CpuStep /\ bus.ppu.nmi_interrupt # None) =>
          LET s == cpu.register_s
              pc == cpu.program_counter
              handler == mem_read_u16(bus, NmiVector, FALSE).val
          IN /\ bus'.ppu.nmi_interrupt = None
             /\ Get(bus'.cpu_vram, 256 + s) = pc \div 256
             /\ Get(bus'.cpu_vram, 256 + wrapping_sub_u8(s, 1)) = pc % 256
             /\ Get(bus'.cpu_vram, 256 + wrapping_sub_u8(s, 2))
                    = set_flag(set_flag(cpu.status, BREAK1, TRUE), BREAK2, FALSE)
             /\ BitAnd(cpu'.status, INTERRUPT) # 0
             /\ bus'.cycles >= bus.cycles + 2
             /\ cpu'.program_counter = handler + 1]_vars

(***************************************************************************)
(* PPUDATA accesses: the control register, 0x2006 and 0x2007 are written   *)
(* and 0x2007 is read, in any order.                                       *)
(***************************************************************************)
MaxDataOps == 5

DataControls == {0, 4}

DataAddrBytes == {16, 35, 63}

DataBytes == {102}

InitData == InitWith(TestRom("HORIZONTAL"))

DataControlWrite == \E v \in DataControls : Len(log) < MaxDataOps /\ Write(PPUCTRL, v)

DataAddrWrite == \E b \in DataAddrBytes : Len(log) < MaxDataOps /\ Write(PPUADDR, b)

DataWrite == \E b \in DataBytes : Len(log) < MaxDataOps /\ Write(PPUDATA, b)

DataRead == Len(log) < MaxDataOps /\ Read(PPUDATA)

NextData == DataControlWrite \/ DataAddrWrite \/ DataWrite \/ DataRead

SpecData == InitData /\ [][NextData]_vars

InNametables(a) == a >= 8192 /\ a <= 12287

\* C11: every PPUDATA access, read or write, advances the VRAM address by 1
\* when control bit 2 is clear and by 32 when it is set, modulo 2^14; a
\* write into the nametable range lands at the address held before the
\* access, and a read of that range or of pattern memory loads the buffer
\* from the address held before the access.
C11_DataAccessPostIncrements ==
    [][LET a == bus.ppu.addr.value
           step == IF Bit(bus.ppu.control, 2) = 1 THEN 32 ELSE 1
       IN /\ (Read(PPUDATA) \/ \E b \in DataBytes : Write(PPUDATA, b)) =>
                 /\ bus'.ppu.addr.value = (a + step) % 16384
                 /\ bus'.ppu.addr.value \in 0..16383
          /\ \A b \in DataBytes : (Write(PPUDATA, b) /\ InNametables(a)) =>
                 Get(bus'.ppu.vram, mirror_vram_addr(bus.ppu, a)) = b
          /\ (Read(PPUDATA) /\ InNametables(a)) =>
                 bus'.ppu.internal_data_buffer
                     = Get(bus.ppu.vram, mirror_vram_addr(bus.ppu, a))
          /\ (Read(PPUDATA) /\ a < 8192) =>
                 bus'.ppu.internal_data_buffer = Get(bus.ppu.chr_rom.data, a)]_vars

\* a write through PPUDATA at 0x2310 with the increment at 32
C11_Witness ==
    /\ Len(log) = 4
    /\ IsWrite(log[1], PPUCTRL) /\ log[1].data = 4
    /\ IsWrite(log[4], PPUDATA)
    /\ bus.ppu.addr.value = 8976 + 32
    /\ Get(bus.ppu.vram, 784) = 102
    /\ ~panicked

PaletteAliases == {16144, 16148, 16152, 16156}

\* C13: a PPUDATA write of b with the VRAM address at 0x3F10, 0x3F14, 0x3F18
\* or 0x3F1C completes and stores b in palette entry 0x00, 0x04, 0x08 or 0x0C.
C13_PaletteAliasWrite ==
    [][\A b \in DataBytes :
          (Write(PPUDATA, b) /\ bus.ppu.addr.value \in PaletteAliases) =>
              /\ ~panicked'
              /\ Get(bus'.ppu.palette, bus.ppu.addr.value - 16144) = b]_vars

(***************************************************************************)
(* Nametable mirroring: PPU::mirror_vram_addr is called on addresses of    *)
(* the nametable range and of its mirror, under either arrangement.        *)
(***************************************************************************)
MaxMirrorCalls == 2

\* the first cell, cell 5 and the last cell of the four logical tables, and
\* cells of their mirrors at 0x3000-0x3EFF
MirrorAddrs ==
    {8192, 8197, 9215, 9216, 9221, 10239, 10240, 10245, 11263, 11264, 11269, 12287,
     12288, 12293, 13317, 14341, 15365, 16127}

InitMirror == \E m \in Mirrorings : InitWith(TestRom(m))

MirrorCall ==
    \E a \in MirrorAddrs, oc \in BOOLEAN :
        /\ ~panicked
        /\ Len(log) < MaxMirrorCalls
        /\ log' = Append(log, [op |-> "mirror", addr |-> a, data |-> 0,
                               val |-> mirror_vram_addr(bus.ppu, a)])
        /\ panicked' = (oc /\ mirror_overflows(a))
        /\ UNCHANGED <<cpu, bus>>

NextMirror == MirrorCall

SpecMirror == InitMirror /\ [][NextMirror]_vars

\* the logical nametable (0..3) an address of 0x2000-0x3EFF belongs to
LogicalTable(a) == ((a - 8192) \div 1024) % 4

PhysicalTable(mirroring, t) == IF mirroring = "HORIZONTAL" THEN t \div 2 ELSE t % 2

\* C12: mirror_vram_addr maps an address of 0x2000-0x3EFF to an index in
\* 0..0x7FF with the same offset within the 1 KiB table; under Horizontal
\* tables 0, 1 go to physical table 0 and tables 2, 3 to physical 1, under
\* Vertical tables 0, 2 go to physical 0 and tables 1, 3 to physical 1.
C12_MirrorVramAddr ==
    /\ ~panicked
    /\ \A k \in 1..Len(log) :
          log[k].op = "mirror" =>
              /\ log[k].val \in 0..2047
              /\ log[k].val % 1024 = log[k].addr % 1024
              /\ log[k].val \div 1024
                     = PhysicalTable(bus.ppu.mirroring, LogicalTable(log[k].addr))

\* under Horizontal, 0x2405 and 0x2005 have been mapped to the same cell
C12_Witness ==
    /\ bus.ppu.mirroring = "HORIZONTAL"
    /\ Len(log) = 2
    /\ log[1].op = "mirror" /\ log[1].addr = 9221 /\ log[1].val = 5
    /\ log[2].op = "mirror" /\ log[2].addr = 8197 /\ log[2].val = 5

(***************************************************************************)
(* OAM access through the registers: 0x2003 and 0x2004 are written and     *)
(* 0x2004 is read, in any order.                                           *)
(***************************************************************************)
MaxOamOps == 4

OamAddrs == {0, 16, 255}

OamBytes == {119, 136}

InitOam == InitWith(TestRom("HORIZONTAL"))

OamAddrWrite == \E a \in OamAddrs : Len(log) < MaxOamOps /\ Write(OAMADDR, a)

OamDataWrite == \E b \in OamBytes : Len(log) < MaxOamOps /\ Write(OAMDATA, b)

OamDataRead == Len(log) < MaxOamOps /\ Read(OAMDATA)

NextOam == OamAddrWrite \/ OamDataWrite \/ OamDataRead

SpecOam == InitOam /\ [][NextOam]_vars

\* the log ends with: OAMADDR := a, OAMDATA := b, OAMADDR := a
EndsWithOamWriteAt(a, b) ==
    LET n == Len(log) IN
    /\ n >= 3
    /\ IsWrite(log[n - 2], OAMADDR) /\ log[n - 2].data = a
    /\ IsWrite(log[n - 1], OAMDATA) /\ log[n - 1].data = b
    /\ IsWrite(log[n], OAMADDR) /\ log[n].data = a

\* C14: a write of b to OAMDATA stores b at OAM[oam_addr], changes no other
\* OAM cell and sets oam_addr to (oam_addr + 1) mod 256; a read of OAMDATA
\* returns OAM[oam_addr] and changes neither oam_addr nor OAM; a read that
\* follows OAMADDR := a, OAMDATA := b, OAMADDR := a returns b.
C14_OamDataAccess ==
    [][LET a == bus.ppu.oam_addr IN
       /\ \A b \in OamBytes : Write(OAMDATA, b) =>
              /\ Get(bus'.ppu.oam_data, a) = b
              /\ \A i \in 0..(OAM_LEN - 1) :
                    i # a => Get(bus'.ppu.oam_data, i) = Get(bus.ppu.oam_data, i)
              /\ bus'.ppu.oam_addr = (a + 1) % 256
              /\ ~panicked'
       /\ Read(OAMDATA) =>
              /\ log'[Len(log')].val = Get(bus.ppu.oam_data, a)
              /\ bus' = bus
              /\ ~panicked'
              /\ \A x \in OamAddrs, b \in OamBytes :
                    EndsWithOamWriteAt(x, b) => log'[Len(log')].val = b]_vars

\* the round trip at the last OAM cell, where the write wraps oam_addr to 0
C14_Witness ==
    /\ Len(log) = 4
    /\ IsWrite(log[1], OAMADDR) /\ log[1].data = 255
    /\ IsWrite(log[2], OAMDATA) /\ log[2].data = 136
    /\ IsWrite(log[3], OAMADDR) /\ log[3].data = 255
    /\ IsRead(log[4], OAMDATA) /\ log[4].val = 136
    /\ bus.ppu.oam_addr = 255

(***************************************************************************)
(* Internal RAM: addresses of 0x0000-0x1FFF are written and read.          *)
(***************************************************************************)
MaxRamOps == 3

\* cell 5 through three of its mirrors, the last cell through two
RamAddrs == {5, 2053, 6149, 2047, 8191}

RamBytes == {17, 34}

InitRam == InitWith(TestRom("HORIZONTAL"))

RamWrite == \E a \in RamAddrs, b \in RamBytes : Len(log) < MaxRamOps /\ Write(a, b)

RamRead == \E a \in RamAddrs : Len(log) < MaxRamOps /\ Read(a)

NextRam == RamWrite \/ RamRead

SpecRam == InitRam /\ [][NextRam]_vars

\* C15: a write of b at a in 0x0000-0x1FFF stores b in RAM cell a mod 0x800
\* and changes no other cell, so that b is read at every address with the
\* same residue and the other addresses read what they read before; a read
\* at a returns cell a mod 0x800 and changes nothing.
C15_RamMirrors ==
    [][/\ \A a \in RamAddrs, b \in RamBytes : Write(a, b) =>
              /\ ~panicked'
              /\ \A i \in 0..(CPU_VRAM_LEN - 1) :
                    Get(bus'.cpu_vram, i)
                        = IF i = a % 2048 THEN b ELSE Get(bus.cpu_vram, i)
              /\ DOMAIN bus'.cpu_vram \subseteq 0..(CPU_VRAM_LEN - 1)
              /\ \A x \in RamAddrs :
                    mem_read(bus', x).val
                        = IF x % 2048 = a % 2048 THEN b ELSE mem_read(bus, x).val
       /\ \A a \in RamAddrs : Read(a) =>
              /\ ~panicked'
              /\ log'[Len(log')].val = Get(bus.cpu_vram, a % 2048)
              /\ bus' = bus]_vars

\* a byte written at 0x1805 has been read at 0x0005
C15_Witness ==
    /\ Len(log) = 2
    /\ IsWrite(log[1], 6149) /\ log[1].data = 34
    /\ IsRead(log[2], 5) /\ log[2].val = 34

(***************************************************************************)
(* PPU register mirrors: addresses of 0x2008-0x3FFF are written and read.  *)
(***************************************************************************)
MaxRegOps == 3

\* one mirror of each of the eight registers
RegMirrorAddrs == {8200, 8201, 8202, 16379, 8204, 8205, 16382, 16383}

RegBytes == {35}

InitReg == InitWith(TestRom("HORIZONTAL"))

RegMirrorWrite == \E a \in RegMirrorAddrs, b \in RegBytes : Len(log) < MaxRegOps /\ Write(a, b)

RegMirrorRead == \E a \in RegMirrorAddrs : Len(log) < MaxRegOps /\ Read(a)

NextReg == RegMirrorWrite \/ RegMirrorRead

SpecReg == InitReg /\ [][NextReg]_vars

\* the register 0x2000-0x2007 that a mirror address stands for
RegisterOf(a) == 8192 + (a % 8)

\* C16: a read or a write at a in 0x2008-0x3FFF returns what the same access
\* at the register a & 0x2007 returns, leaves the same state behind, and
\* fails exactly when that access fails.
C16_RegisterMirrors ==
    [][/\ \A a \in RegMirrorAddrs, b \in RegBytes : Write(a, b) =>
              /\ bus' = mem_write(bus, RegisterOf(a), b).bus
              /\ panicked' = mem_write(bus, RegisterOf(a), b).panic
       /\ \A a \in RegMirrorAddrs : Read(a) =>
              /\ bus' = mem_read(bus, RegisterOf(a)).bus
              /\ panicked' = mem_read(bus, RegisterOf(a)).panic
              /\ log'[Len(log')].val = mem_read(bus, RegisterOf(a)).val]_vars

\* the VRAM address was loaded and a byte stored through mirrors of 0x2006
\* and 0x2007
C16_Witness ==
    /\ Len(log) = 3
    /\ IsWrite(log[1], 16382) /\ IsWrite(log[2], 16382) /\ IsWrite(log[3], 16383)
    /\ bus.ppu.addr.value = 8996
    /\ Get(bus.ppu.vram, mirror_vram_addr(bus.ppu, 8995)) = 35
    /\ ~panicked

(***************************************************************************)
(* Program ROM: addresses of 0x8000-0xFFFF are read and written, with a    *)
(* 16 KiB or a 32 KiB ROM on the cartridge.                                *)
(***************************************************************************)
MaxPrgOps == 3

PrgAddrs == {32768, 32769, 49146, 49152, 49153, 65530, 65532, 65533}

PrgBytes == {102}

PrgRoms == {TestPrgRom, TestPrgRom32}

InitPrg ==
    \E prg \in PrgRoms : InitWith([TestRom("HORIZONTAL") EXCEPT !.prg_rom = prg])

PrgRead == \E a \in PrgAddrs : Len(log) < MaxPrgOps /\ Read(a)

PrgWrite == \E a \in PrgAddrs, b \in PrgBytes : Len(log) < MaxPrgOps /\ Write(a, b)

PrgRamWrite == \E b \in PrgBytes : Len(log) < MaxPrgOps /\ Write(5, b)

NextPrg == PrgRead \/ PrgWrite \/ PrgRamWrite

SpecPrg == InitPrg /\ [][NextPrg]_vars

\* C17: a read at a in 0x8000-0xFFFF returns ROM byte a - 0x8000 of a 32 KiB
\* ROM and byte (a - 0x8000) mod 0x4000 of a 16 KiB ROM, and changes no
\* state; with a 16 KiB ROM 0xC000+k reads as 0x8000+k.
C17_PrgRomReads ==
    [][\A a \in PrgAddrs : Read(a) =>
          /\ ~panicked'
          /\ bus' = bus
          /\ cpu' = cpu
          /\ bus.prg_rom.len = 32768 =>
                 log'[Len(log')].val = Get(bus.prg_rom.data, a - 32768)
          /\ bus.prg_rom.len = 16384 =>
                 /\ log'[Len(log')].val = Get(bus.prg_rom.data, (a - 32768) % 16384)
                 /\ a >= 49152 => log'[Len(log')].val = mem_read(bus, a - 16384).val]_vars

\* the NMI vector of a 16 KiB ROM read through the upper half, and a byte
\* of the upper half of a 32 KiB ROM
C17_Witness ==
    /\ Len(log) = 1
    /\ \/ bus.prg_rom.len = 16384 /\ IsRead(log[1], 65530) /\ log[1].val = 16
       \/ bus.prg_rom.len = 32768 /\ IsRead(log[1], 49152) /\ log[1].val = 77

\* C18: a write at an address of 0x8000-0xFFFF is fatal; no step follows a
\* failure, and no step changes the program ROM.
C18_PrgRomWritesFault ==
    [][/\ \A a \in PrgAddrs, b \in PrgBytes : Write(a, b) => panicked'
       /\ ~panicked
       /\ bus'.prg_rom = bus.prg_rom]_vars

\* a write to the program ROM has failed after a RAM write
C18_Witness ==
    /\ Len(log) = 2
    /\ IsWrite(log[1], 5)
    /\ IsWrite(log[2], 32768)
    /\ panicked
    /\ Get(bus.prg_rom.data, 0) = 169

(***************************************************************************)
(* Controller port: 0x4016 is written and read, and the host's frame       *)
(* callback refreshes the button snapshot.  Here log holds the calls made  *)
(* since the last callback or write of strobe-high, that write included.   *)
(***************************************************************************)
MaxJoyOps == 12

MaxJoyFrames == 1

JOYPAD1 == 16406

\* snapshots: B, Select, Up and Right held; A alone held
JoySnapshots == {150, 1}

InitJoy == InitWith(TestRom("HORIZONTAL"))

JoyStrobeHigh ==
    /\ ~panicked
    /\ LET r == mem_write(bus, JOYPAD1, 1)
       IN /\ bus' = r.bus
          /\ panicked' = r.panic
    /\ log' = <<[op |-> "write", addr |-> JOYPAD1, data |-> 1, val |-> 0]>>
    /\ UNCHANGED cpu

JoyStrobeLow == Len(log) < MaxJoyOps /\ Write(JOYPAD1, 0)

JoyRead == Len(log) < MaxJoyOps /\ Read(JOYPAD1)

\* the part of Bus::tick that runs the frame callback
JoyFrame ==
    \E s \in JoySnapshots :
        /\ ~panicked
        /\ bus.frames < MaxJoyFrames
        /\ bus' = [bus EXCEPT !.frames = bus.frames + 1, !.joypad.button_status = s]
        /\ log' = <<>>
        /\ UNCHANGED <<cpu, panicked>>

NextJoy == JoyStrobeHigh \/ JoyStrobeLow \/ JoyRead \/ JoyFrame

SpecJoy == InitJoy /\ [][NextJoy]_vars

\* the positions of the writes of strobe-low in l
StrobeLows(l) == {k \in 1..Len(l) : IsWrite(l[k], JOYPAD1) /\ l[k].data = 0}

\* l is: strobe-high, reads, one strobe-low, reads
StrobedOnce(l) ==
    /\ Len(l) >= 2
    /\ IsWrite(l[1], JOYPAD1) /\ l[1].data = 1
    /\ Cardinality(StrobeLows(l)) = 1

\* the values returned by the reads that follow the strobe-low of l
ReadsAfterStrobe(l) ==
    LET p == CHOOSE k \in StrobeLows(l) : TRUE
    IN [k \in 1..(Len(l) - p) |-> l[p + k].val]

\* C19: while the strobe is high a read of 0x4016 returns button A and the
\* read index stays 0; after strobe-high, strobe-low, the k-th read returns
\* bit k-1 of the snapshot (A, B, Select, Start, Up, Down, Left, Right) for
\* k <= 8 and 1 for k > 8, each read of the first eight advancing the index
\* by one.
C19_StrobeProtocol ==
    [][/\ (JoyRead /\ bus.joypad.strobe) =>
              /\ log'[Len(log')].val = bus.joypad.button_status % 2
              /\ bus.joypad.button_index = 0
              /\ bus'.joypad.button_index = 0
       /\ StrobedOnce(log') =>
              LET v == ReadsAfterStrobe(log')
              IN /\ \A k \in 1..Len(v) :
                       v[k] = IF k <= 8
                              THEN (bus'.joypad.button_status \div (2 ^ (k - 1))) % 2
                              ELSE 1
                 /\ bus'.joypad.button_index = IF Len(v) <= 8 THEN Len(v) ELSE 8
                 /\ ~bus'.joypad.strobe]_vars

\* snapshot 0x96, strobed, read ten times: 0 1 1 0 1 0 0 1 then 1 1
C19_Witness ==
    /\ bus.joypad.button_status = 150
    /\ StrobedOnce(log)
    /\ StrobeLows(log) = {2}
    /\ ReadsAfterStrobe(log) = <<0, 1, 1, 0, 1, 0, 0, 1, 1, 1>>
    /\ bus.joypad.button_index = 8

ResetVector == 65532

\* C20: reset leaves A = X = Y = 0, S = 0xFD, P = 0x24 and PC equal to the
\* little-endian word at 0xFFFC/0xFFFD (0x8000 with this cartridge), and
\* changes nothing on the bus.
C20_Reset ==
    [][CpuReset =>
          /\ ~panicked'
          /\ cpu'.register_a = 0 /\ cpu'.register_x = 0 /\ cpu'.register_y = 0
          /\ cpu'.register_s = 253
          /\ cpu'.status = 36
          /\ cpu'.program_counter
                 = mem_read(bus, ResetVector).val + 256 * mem_read(bus, ResetVector + 1).val
          /\ cpu'.program_counter = 32768
          /\ bus' = bus]_vars

\* the CPU is back at the reset state after the program has loaded 0x80
\* into A and stored it in the control register
C20_Witness ==
    /\ cpu = [CPU_new EXCEPT !.program_counter = 32768]
    /\ bus.ppu.control = 128
    /\ ~panicked

(***************************************************************************)
(* Programs in RAM: CPU::load_and_run loads a program at 0x0600, resets    *)
(* the CPU, and runs it from 0x0600 until BRK returns.                     *)
(***************************************************************************)
ProgramBase == 1536

\* LDX #s ; TXS ; LDA #p ; PHA ; PLP ; LDA #a ; PHA ; PLA ; PHP ; PLP ; BRK
StackProgram(s, p, a) == <<162, s, 154, 169, p, 72, 40, 169, a, 72, 104, 8, 40, 0>>

\* LDX #s ; TXS ; LDA #$07 ; PHA ; LDA #$00 ; PHA ; LDA #p ; PHA ; RTI
RtiProgram(s, p) == <<162, s, 154, 169, 7, 72, 169, 0, 72, 169, p, 72, 64>>

\* 0600 LDX #s ; TXS ; JSR $0607 ; 0606 BRK ; 0607 RTS
JsrProgram(s) == <<162, s, 154, 32, 7, 6, 0, 96>>

\* 0600 LDA #op ; STA t ; LDX #s ; TXS ; 0608 JSR t ; 060B BRK
JsrTargetProgram(s, t, op) ==
    <<169, op, 141, t % 256, t \div 256, 162, s, 154, 32, t % 256, t \div 256, 0>>

\* stores lo at ptr, v1 at ptr + 1 and v0 at the start of ptr's page, then
\* JMP (ptr)
JmpIndirectProgram(ptr, lo, v1, v0) ==
    <<169, lo, 141, ptr % 256, ptr \div 256,
      169, v1, 141, (ptr + 1) % 256, (ptr + 1) \div 256,
      169, v0, 141, 0, ptr \div 256,
      108, ptr % 256, ptr \div 256>>

\* stores the branch op with offset o at 0x0010, pulls p into the status
\* register, then JMP $0010
BranchProgram(op, o, p) ==
    <<169, op, 141, 16, 0, 169, o, 141, 17, 0, 169, p, 72, 40, 76, 16, 0>>

\* LDA #p ; PHA ; PLP ; LDA #a ; ADC #m ; BRK
AdcProgram(p, a, m) == <<169, p, 72, 40, 169, a, 105, m, 0>>

\* the operand bytes that make an instruction of op's mode address the data
\* byte: 0x40 in page zero, 0x0240 otherwise, with X = 4, Y = 5 and the
\* pointers 0x023B at 0x20 and 0x0240 at 0x24; an immediate operand is m
OperandBytes(op, m) ==
    CASE OpMode(op) = "Immediate" -> <<m>>
      [] OpMode(op) = "ZeroPage" -> <<64>>
      [] OpMode(op) = "ZeroPage_X" -> <<60>>
      [] OpMode(op) = "ZeroPage_Y" -> <<59>>
      [] OpMode(op) = "Absolute" -> <<64, 2>>
      [] OpMode(op) = "Absolute_X" -> <<60, 2>>
      [] OpMode(op) = "Absolute_Y" -> <<59, 2>>
      [] OpMode(op) = "Indirect_X" -> <<32>>
      [] OpMode(op) = "Indirect_Y" -> <<32>>
      [] OTHER -> <<>>

\* 0600 LDA #m ; STA $0240 ; STA $40 ; LDA #$3B ; STA $20 ; LDA #$02 ; STA $21 ;
\* LDA #$40 ; STA $24 ; LDA #$02 ; STA $25 ; LDA #p ; PHA ; PLP ; LDX #$04 ;
\* LDY #$05 ; LDA #a ; 0621 op with its operand bytes ; BRK
OpProgram(op, m, p, a) ==
    <<169, m, 141, 64, 2, 133, 64, 169, 59, 133, 32, 169, 2, 133, 33,
      169, 64, 133, 36, 169, 2, 133, 37, 169, p, 72, 40, 162, 4, 160, 5, 169, a>>
        \o <<op>> \o OperandBytes(op, m) \o <<0>>

\* the pointer at 0x24 points at itself and (Indirect,X) goes through it:
\* 0600 LDA #$24 ; STA $24 ; LDA #$00 ; STA $25 ; LDX #$04 ; LDA #a ;
\* 060C op ($20,X) ; BRK
SelfPointerProgram(op, a) ==
    <<169, 36, 133, 36, 169, 0, 133, 37, 162, 4, 169, a, op, 32, 0>>

\* LDA #$05 ; a byte without a descriptor
UndefinedProgram(u) == <<169, 5, u>>

\* the opcodes that leave the program counter to the step over the operands
SequentialOpcodes == ModelledOpcodes \ (BranchOpcodes \cup {0, 76, 108, 32, 96, 64})

ShiftOpcodes == {10, 74, 42, 106} \cup AslOpcodes \cup LsrOpcodes \cup RolOpcodes \cup RorOpcodes

UnofficialOpcodes ==
    DcpOpcodes \cup IsbOpcodes \cup SloOpcodes \cup RlaOpcodes \cup SreOpcodes
        \cup RraOpcodes \cup LaxOpcodes \cup AncOpcodes \cup AxsOpcodes \cup {75}

OperandData == {0, 1, 128, 255}

OperandStatusBytes == {0, 1}

OperandAccumulators == {0, 85, 255}

StackPointers == {0, 1, 128, 255}

StatusBytes == {0, 16, 207, 255}

Accumulators == {0, 127, 128}

\* subroutine addresses in RAM, the page crossing one at 0x02FF
JsrTargets == {2, 640, 767}

JmpPointers == {640, 767, 4351}

BranchOffsets == {2, 127, 128, 238, 255}

BranchStatusBytes == {0, 65, 130, 195}

AdcStatusBytes == {0, 1, 8, 9}

AdcBytes == {0, 1, 127, 128, 255}

Programs ==
    {StackProgram(s, p, a) : s \in StackPointers, p \in StatusBytes, a \in Accumulators}
        \cup {RtiProgram(s, p) : s \in StackPointers, p \in StatusBytes}
        \cup {JsrProgram(s) : s \in StackPointers}
        \cup {JsrTargetProgram(s, t, 96) : s \in {0, 255}, t \in JsrTargets}
        \cup {JsrTargetProgram(255, t, 234) : t \in {0, 1}}
        \cup {JmpIndirectProgram(ptr, lo, v1, v0) :
                 ptr \in JmpPointers, lo \in {0, 52}, v1 \in {0, 3}, v0 \in {0, 5}}
        \cup {BranchProgram(op, o, p) :
                 op \in BranchOpcodes, o \in BranchOffsets, p \in BranchStatusBytes}
        \cup {AdcProgram(p, a, m) : p \in AdcStatusBytes, a \in AdcBytes, m \in AdcBytes}
        \cup {UndefinedProgram(u) : u \in UndefinedOpcodes}
        \cup {OpProgram(op, 1, 0, 1) : op \in SequentialOpcodes}
        \cup {OpProgram(op, m, p, a) :
                 op \in ShiftOpcodes \cup UnofficialOpcodes, m \in OperandData,
                 p \in OperandStatusBytes, a \in OperandAccumulators}
        \cup {SelfPointerProgram(op, a) :
                 op \in UnofficialOpcodes \cap {c \in 0..255 : OpMode(c) = "Indirect_X"},
                 a \in OperandAccumulators}
        \cup {<<56, 144, 2, 169, 5, 0>>, <<24, 144, 2, 169, 5, 0>>,
              <<56, 248, 8, 24, 216, 40, 0>>}

\* CPU::load from byte i of the program on
RECURSIVE CPU_load(_, _, _)
CPU_load(b, program, i) ==
    IF i > Len(program) THEN [bus |-> b, panic |-> FALSE]
    ELSE Only({IF w.panic THEN w ELSE CPU_load(w.bus, program, i + 1) :
                  w \in {mem_write(b, ProgramBase + i - 1, program[i])}})

\* CPU::load_and_run up to the call of run
InitProg ==
    \E program \in Programs :
        \E l \in {CPU_load(Bus_new(TestRom("HORIZONTAL")), program, 1)} :
            \E r \in {CPU_reset(CPU_new, l.bus, FALSE)} :
                /\ cpu = [r.cpu EXCEPT !.program_counter = ProgramBase]
                /\ bus = r.bus
                /\ panicked = (l.panic \/ r.panic)
                /\ log = <<>>

\* the byte at the program counter
Fetched == mem_read(bus, cpu.program_counter).val

\* one iteration of the loop of run; BRK returns, and the log records it
ProgStep ==
    /\ ~panicked
    /\ log = <<>>
    /\ Fetched \in ModelledOpcodes \cup UndefinedOpcodes
    /\ \E oc \in BOOLEAN :
          \E r \in {CPU_step(cpu, bus, oc)} :
              /\ cpu' = r.cpu
              /\ bus' = r.bus
              /\ panicked' = r.panic
    /\ log' = IF Fetched = 0
              THEN <<[op |-> "return", addr |-> cpu.program_counter, data |-> 0, val |-> 0]>>
              ELSE log

NextProg == ProgStep

SpecProg == InitProg /\ [][NextProg]_vars

\* the byte on top of the stack: the one the last push stored
StackTop(c, b) == Get(b.cpu_vram, 256 + wrapping_add_u8(c.register_s, 1))

\* the byte under the stack pointer: the one the last pull read
Pulled(c, b) == Get(b.cpu_vram, 256 + c.register_s)

\* C21: after reset and after every executed instruction, PLP and RTI
\* included, the status register has bit 5 set and bit 4 clear; the byte PHP
\* pushes is the status with bits 4 and 5 set.
C21_BreakBits ==
    /\ [](Bit(cpu.status, 5) = 1 /\ Bit(cpu.status, 4) = 0)
    /\ [][ProgStep /\ Fetched = 8 =>
             StackTop(cpu', bus') = BitOr(cpu.status, BREAK1 + BREAK2)]_vars

\* PLP or RTI has pulled a byte with bit 4 set and bit 5 clear
C21_Witness ==
    /\ ~panicked
    /\ Pulled(cpu, bus) = 16
    /\ cpu.status = 32

\* the byte i places after the program counter, modulo the 2 KiB of RAM the
\* programs live in
CodeAt(i) == Get(bus.cpu_vram, (cpu.program_counter + CPU_VRAM_LEN + i) % CPU_VRAM_LEN)

\* two iterations of the run loop
Run2(c, b, overflow_checks) ==
    Only({IF r1.panic THEN r1 ELSE CPU_step(r1.cpu, r1.bus, overflow_checks) :
             r1 \in {CPU_step(c, b, overflow_checks)}})

\* C22: from every state, PHA followed by PLA leaves A and S as they were, and
\* PHP followed by PLP leaves S as it was and P as it was in every bit other
\* than bits 4 and 5.
C22_PushPullRoundTrip ==
    \A oc \in BOOLEAN :
        /\ (~panicked /\ log = <<>> /\ CodeAt(0) = 72 /\ CodeAt(1) = 104) =>
              \E r \in {Run2(cpu, bus, oc)} :
                  /\ ~r.panic
                  /\ r.cpu.register_a = cpu.register_a
                  /\ r.cpu.register_s = cpu.register_s
        /\ (~panicked /\ log = <<>> /\ CodeAt(0) = 8 /\ CodeAt(1) = 40) =>
              \E r \in {Run2(cpu, bus, oc)} :
                  /\ ~r.panic
                  /\ r.cpu.register_s = cpu.register_s
                  /\ BitAnd(r.cpu.status, 207) = BitAnd(cpu.status, 207)

\* PHA and PLA have run with the stack pointer at 0x00, wrapping it to 0xFF
\* and back, with a negative accumulator and the carry and decimal flags set
C22_Witness ==
    /\ ~panicked
    /\ CodeAt(-2) = 72
    /\ CodeAt(-1) = 104
    /\ cpu.register_s = 0
    /\ cpu.register_a = 128
    /\ Pulled(cpu, bus) = 128
    /\ BitAnd(cpu.status, CARRY + DECIMAL) = CARRY + DECIMAL

\* the address the stack pointer s designates
StackAddr(s) == 256 + (s % 256)

\* C30: every stack access is in 0x0100-0x01FF: a push (PHA, PHP) writes at
\* 0x0100+S and then decrements S modulo 256, a pull (PLA, PLP) increments S
\* modulo 256 and then reads at 0x0100+S; JSR pushes the high byte of the
\* return address first and the low byte second and moves S down by 2, RTS
\* pulls them in the opposite order, so that JSR to an RTS comes back behind
\* the JSR with S restored, also when S wraps.
C30_StackPage ==
    /\ [][ProgStep =>
            /\ Fetched \in {72, 8} =>
                  /\ bus'.cpu_vram =
                        Put(bus.cpu_vram, StackAddr(cpu.register_s),
                            IF Fetched = 72 THEN cpu.register_a
                            ELSE BitOr(cpu.status, BREAK1 + BREAK2))
                  /\ cpu'.register_s = (cpu.register_s + 255) % 256
            /\ Fetched \in {104, 40} =>
                  /\ bus'.cpu_vram = bus.cpu_vram
                  /\ cpu'.register_s = (cpu.register_s + 1) % 256
                  /\ Fetched = 104 =>
                        cpu'.register_a = Get(bus.cpu_vram, StackAddr(cpu'.register_s))
                  /\ Fetched = 40 =>
                        BitAnd(cpu'.status, 207)
                            = BitAnd(Get(bus.cpu_vram, StackAddr(cpu'.register_s)), 207)
            /\ Fetched = 32 =>
                  /\ bus'.cpu_vram =
                        Put(Put(bus.cpu_vram, StackAddr(cpu.register_s),
                                (cpu.program_counter + 2) \div 256),
                            StackAddr(cpu.register_s + 255),
                            (cpu.program_counter + 2) % 256)
                  /\ cpu'.register_s = (cpu.register_s + 254) % 256
            /\ Fetched = 96 =>
                  /\ bus'.cpu_vram = bus.cpu_vram
                  /\ cpu'.register_s = (cpu.register_s + 2) % 256
                  /\ cpu'.program_counter =
                        Get(bus.cpu_vram, StackAddr(cpu.register_s + 1))
                            + 256 * Get(bus.cpu_vram, StackAddr(cpu.register_s + 2)) + 1]_vars
    /\ [](\A oc \in BOOLEAN :
            (~panicked /\ log = <<>> /\ CodeAt(0) = 32
                 /\ Get(bus.cpu_vram, (CodeAt(1) + 256 * CodeAt(2)) % CPU_VRAM_LEN) = 96) =>
                \E r \in {Run2(cpu, bus, oc)} :
                    /\ ~r.panic
                    /\ r.cpu.program_counter = cpu.program_counter + 3
                    /\ r.cpu.register_s = cpu.register_s)

\* JSR has pushed the return address 0x0605 with the stack pointer at 0x00:
\* the high byte is at 0x0100, the low byte at 0x01FF, and S is 0xFE
C30_Witness ==
    /\ ~panicked
    /\ cpu.program_counter = ProgramBase + 7
    /\ cpu.register_s = 254
    /\ Get(bus.cpu_vram, 256) = 6
    /\ Get(bus.cpu_vram, 511) = 5

\* the pointer operand of the instruction at the program counter
Operand16 == CodeAt(1) + 256 * CodeAt(2)

\* the little-endian word JMP (p) is to load: low byte at p, high byte at
\* p + 1, or at the start of p's page when p is the last byte of a page
IndirectTarget(p) ==
    mem_read(bus, p).val
        + 256 * mem_read(bus, IF p % 256 = 255 THEN p - 255 ELSE p + 1).val

\* C23: JMP (p) sets the program counter to lo | (hi << 8), lo the byte at p
\* and hi the byte at p + 1, or at p & 0xFF00 when the low byte of p is 0xFF.
C23_IndirectJump ==
    [][ProgStep /\ Fetched = 108 =>
          /\ ~panicked'
          /\ cpu'.program_counter = IndirectTarget(Operand16)]_vars

\* what does hold: the same for every target other than 0x0000 and 0x0001
C23_IndirectJumpFromTwo ==
    [][ProgStep /\ Fetched = 108 /\ IndirectTarget(Operand16) >= 2 =>
          /\ ~panicked'
          /\ cpu'.program_counter = IndirectTarget(Operand16)]_vars

\* the status flag a branch opcode tests, and the value that takes the branch
BranchFlag(op) ==
    CASE op \in {144, 176} -> CARRY
      [] op \in {240, 208} -> ZERO
      [] op \in {48, 16} -> NEGATIVE
      [] op \in {80, 112} -> OVERFLOW

BranchTaken(op, status) ==
    (BitAnd(status, BranchFlag(op)) # 0) = (op \in {176, 240, 48, 112})

\* an operand byte as a signed number
Signed8(o) == IF o >= 128 THEN o - 256 ELSE o

\* where the instruction after a branch at p with operand o is fetched
BranchTarget(p, o, taken) ==
    IF taken THEN (p + 2 + Signed8(o) + 65536) % 65536 ELSE p + 2

\* C24: each of the eight branch opcodes at p with operand o leaves the
\* program counter at (p + 2 + o') mod 2^16, o' being o as a signed byte, when
\* its condition holds and at p + 2 when it does not, and changes nothing
\* else.
C24_Branch ==
    [][ProgStep /\ Fetched \in BranchOpcodes =>
          /\ ~panicked'
          /\ cpu' = [cpu EXCEPT !.program_counter =
                        BranchTarget(cpu.program_counter, CodeAt(1),
                                     BranchTaken(Fetched, cpu.status))]
          /\ bus' = bus]_vars

\* what does hold: the same for every branch that does not land on 0x0000
C24_BranchNotToZero ==
    [][ProgStep /\ Fetched \in BranchOpcodes
         /\ BranchTarget(cpu.program_counter, CodeAt(1), BranchTaken(Fetched, cpu.status)) # 0 =>
          /\ ~panicked'
          /\ cpu' = [cpu EXCEPT !.program_counter =
                        BranchTarget(cpu.program_counter, CodeAt(1),
                                     BranchTaken(Fetched, cpu.status))]
          /\ bus' = bus]_vars

\* the status register with the flags ADC computes from A, M and the carry c;
\* the other bits are kept
AdcStatus(status, a, m, c) ==
    LET sum == a + m + c
        res == sum % 256
        s1 == set_flag(status, CARRY, sum > 255)
        s2 == set_flag(s1, OVERFLOW, BitAnd(BitAnd(BitXor(a, res), BitXor(m, res)), 128) # 0)
        s3 == set_flag(s2, ZERO, res = 0)
    IN set_flag(s3, NEGATIVE, res >= 128)

\* C25: ADC #M leaves A' = (A + M + c) mod 256, C = (A + M + c > 255),
\* V = ((A ^ A') & (M ^ A') & 0x80) != 0, Z = (A' = 0), N = bit 7 of A',
\* whatever the D flag; V is then set exactly when the signed sum leaves
\* -128..127; 0x7F + 0x01 gives V, N and not C, Z, and 0xFF + 0x01 gives
\* C, Z and not V, N.
C25_Adc ==
    [][ProgStep /\ Fetched = 105 =>
          LET a == cpu.register_a
              m == CodeAt(1)
              c == BitAnd(cpu.status, CARRY)
          IN /\ ~panicked'
             /\ cpu'.register_a = (a + m + c) % 256
             /\ cpu'.status = AdcStatus(cpu.status, a, m, c)
             /\ (BitAnd(cpu'.status, OVERFLOW) # 0)
                    = (Signed8(a) + Signed8(m) + c \notin -128..127)
             /\ (a = 127 /\ m = 1 /\ c = 0) =>
                    BitAnd(cpu'.status, OVERFLOW + NEGATIVE + CARRY + ZERO) = OVERFLOW + NEGATIVE
             /\ (a = 255 /\ m = 1 /\ c = 0) =>
                    BitAnd(cpu'.status, OVERFLOW + NEGATIVE + CARRY + ZERO) = CARRY + ZERO
             /\ bus' = bus]_vars

\* 0x7F + 0x01 has been added in decimal mode: A is 0x80 with V and N set
C25_Witness ==
    /\ ~panicked
    /\ CodeAt(-2) = 105
    /\ CodeAt(-1) = 1
    /\ CodeAt(-3) = 127
    /\ cpu.register_a = 128
    /\ BitAnd(cpu.status, DECIMAL + OVERFLOW + NEGATIVE + CARRY + ZERO)
           = DECIMAL + OVERFLOW + NEGATIVE

\* C26: when the byte fetched at the program counter has no descriptor in
\* the opcode table the step is fatal: the registers are as they were, memory
\* and the devices are as the fetch left them, and no instruction is executed
\* afterwards.
C26_UndefinedOpcode ==
    /\ [][ProgStep /\ Fetched \in UndefinedOpcodes =>
            /\ panicked'
            /\ cpu' = cpu
            /\ bus' = mem_read(bus, cpu.program_counter).bus]_vars
    /\ [][panicked => panicked' /\ cpu' = cpu /\ bus' = bus]_vars

\* the run has stopped on the byte 0x02 behind LDA #$05
C26_Witness ==
    /\ panicked
    /\ cpu.program_counter = ProgramBase + 2
    /\ CodeAt(0) = 2
    /\ cpu.register_a = 5

(***************************************************************************)
(* NMI delivery: the host enables NMI generation before the first tick,    *)
(* then clocks the bus, polls the NMI flag and reads the status register,  *)
(* in any order.  The log holds what happened since the PPU last entered   *)
(* scanline 241: the entry, then the polls and the status reads.           *)
(***************************************************************************)
\* two fields and a little more
MaxNmiCycles == 60000

\* polls and reads recorded after an entry
MaxNmiEvents == 3

InitNmi == InitWith(TestRom("HORIZONTAL"))

NmiEvent(kind, v) == [op |-> kind, addr |-> 0, data |-> bus.frames, val |-> v]

NmiRecord(e) == IF log # <<>> /\ Len(log) <= MaxNmiEvents THEN Append(log, e) ELSE log

NmiEnable ==
    /\ ~panicked
    /\ bus.cycles = 0
    /\ bus.ppu.control = 0
    /\ \E r \in {mem_write(bus, PPUCTRL, GENERATE_NMI)} :
          /\ bus' = r.bus
          /\ panicked' = r.panic
    /\ UNCHANGED <<cpu, log>>

NmiTick ==
    /\ ~panicked
    /\ bus.cycles + CpuTickCharge <= MaxNmiCycles
    /\ \E oc \in OverflowChecks(CpuTickCharge), buttons \in CallbackButtons(CpuTickCharge) :
          \E r \in {Bus_tick(bus, CpuTickCharge, oc, buttons)} :
              /\ bus' = r.bus
              /\ panicked' = r.panic
    /\ log' = IF TickReaches(CpuTickCharge, VBLANK_SCANLINE)
              THEN <<NmiEvent("entry", 0)>>
              ELSE log
    /\ UNCHANGED cpu

NmiPoll ==
    /\ ~panicked
    /\ \E r \in {poll_nmi_status(bus)} :
          /\ bus' = r.bus
          /\ log' = NmiRecord(NmiEvent("poll", IF r.val = None THEN 0 ELSE 1))
    /\ UNCHANGED <<cpu, panicked>>

NmiStatusRead ==
    /\ ~panicked
    /\ \E r \in {mem_read(bus, PPUSTATUS)} :
          /\ bus' = r.bus
          /\ panicked' = r.panic
          /\ log' = NmiRecord(NmiEvent("read", r.val))
    /\ UNCHANGED cpu

NextNmi == NmiEnable \/ NmiTick \/ NmiPoll \/ NmiStatusRead

SpecNmi == InitNmi /\ [][NextNmi]_vars

\* the recorded polls and the recorded status reads since the last entry
PollsSinceEntry == SelectSeq(log, LAMBDA e : e.op = "poll")

ReadsSinceEntry == SelectSeq(log, LAMBDA e : e.op = "read")

NmiEnabled == Bit(bus.ppu.control, 7) = 1

InNametableMirror(a) == a \in 12288..16127

\* C28: a PPUDATA write or read with the VRAM address a in 0x3000-0x3EFF
\* completes and accesses the cell that the same access at a - 0x1000
\* accesses.
C28_NametableMirror ==
    [][LET a == bus.ppu.addr.value
       IN /\ \A b \in VramData : (Write(PPUDATA, b) /\ InNametableMirror(a)) =>
                 /\ ~panicked'
                 /\ Get(bus'.ppu.vram, mirror_vram_addr(bus.ppu, a - 4096)) = b
          /\ (Read(PPUDATA) /\ InNametableMirror(a)) =>
                 /\ ~panicked'
                 /\ bus'.ppu.internal_data_buffer
                        = Get(bus.ppu.vram, mirror_vram_addr(bus.ppu, a - 4096))]_vars

\* the palette entry that the VRAM address a of 0x3F00-0x3FFF designates
PaletteIndex(a) ==
    LET i == (a - 16128) % PALETTE_LEN
    IN IF i \in {16, 20, 24, 28} THEN i - 16 ELSE i

\* C29: a PPUDATA read with the VRAM address a in 0x3F00-0x3FFF returns the
\* palette byte that a designates, and leaves in the read buffer the
\* nametable byte at the mirrored address underneath a.
C29_PaletteRead ==
    [][LET a == bus.ppu.addr.value
       IN (Read(PPUDATA) /\ a \in 16128..16383) =>
              /\ ~panicked'
              /\ mem_read(bus, PPUDATA).val = Get(bus.ppu.palette, PaletteIndex(a))
              /\ bus'.ppu.internal_data_buffer
                     = Get(bus.ppu.vram, mirror_vram_addr(bus.ppu, a))]_vars

\* what does hold: for a in 0x3F00-0x3F1F the read returns the palette byte
\* and leaves the read buffer as it was
C29_PaletteReadKeepsBuffer ==
    [][LET a == bus.ppu.addr.value
       IN (Read(PPUDATA) /\ a \in 16128..16159) =>
              /\ ~panicked'
              /\ mem_read(bus, PPUDATA).val = Get(bus.ppu.palette, PaletteIndex(a))
              /\ bus'.ppu.internal_data_buffer = bus.ppu.internal_data_buffer]_vars

(***************************************************************************)
(* Counters of the PPU over whole fields                                   *)
(***************************************************************************)
\* C34: in every reachable PPU state the scanline counter is in 0..261 and
\* the dot counter is in 0..340, whatever ticks and register accesses came
\* before.
C34_CountersInRange ==
    /\ bus.ppu.scanlines >= 0 /\ bus.ppu.scanlines < FRAME_SCANLINES
    /\ bus.ppu.cycles >= 0 /\ bus.ppu.cycles < SCANLINE_DOTS

\* the last scanline of the field, one tick before the counters roll over
C34_Witness ==
    /\ bus.ppu.scanlines = FRAME_SCANLINES - 1
    /\ bus.ppu.cycles >= SCANLINE_DOTS - 3

\* C36: after any sequence of Bus::tick calls, 341 * scanline + dots equals
\* three times the bus cycle counter modulo 341 * 262, and the frame callback
\* has run exactly floor(3 * cycles / (341 * 262)) times.
C36_DotsFollowCycles ==
    /\ Dots(bus.ppu) = (3 * bus.cycles) % FieldDots
    /\ bus.frames = (3 * bus.cycles) \div FieldDots

\* the second scanline of the second field
C36_Witness ==
    /\ bus.frames = 1
    /\ bus.ppu.scanlines = 1
    /\ 3 * bus.cycles = FieldDots + Dots(bus.ppu)

\* C37: the VBlank bit is set only while the scanline counter is in 241..261
\* and an NMI is pending only while it is in 241..261; neither is left set
\* when the counter wraps to 0.
C37_VBlankOnlyInVBlank ==
    /\ StatusBit(bus.ppu, 7) => bus.ppu.scanlines \in VBLANK_SCANLINE..(FRAME_SCANLINES - 1)
    /\ bus.ppu.nmi_interrupt # None =>
          bus.ppu.scanlines \in VBLANK_SCANLINE..(FRAME_SCANLINES - 1)
    /\ bus.ppu.scanlines = 0 => ~StatusBit(bus.ppu, 7) /\ bus.ppu.nmi_interrupt = None

\* VBlank and a pending NMI both last into scanline 261
C37_Witness ==
    /\ bus.ppu.scanlines = FRAME_SCANLINES - 1
    /\ StatusBit(bus.ppu, 7)
    /\ bus.ppu.nmi_interrupt = Some(1)

(***************************************************************************)
(* OAM DMA from any page                                                   *)
(***************************************************************************)
\* C35: a write of any page number d to 0x4014 completes without fault and
\* takes its 256 source bytes from the CPU addresses d<<8 .. (d<<8)+0xFF as
\* the bus decodes them for reads; for pages 0x08-0x1F that is the RAM mirror
\* of page d & 7.
C35_OamDmaAnyPage ==
    [][\A d \in DmaPages : Write(OAMDMA, d) =>
          /\ ~panicked'
          /\ \A i \in 0..255 :
                Get(bus'.ppu.oam_data, (bus.ppu.oam_addr + i) % 256)
                    = mem_read(bus, d * 256 + i).val]_vars

\* what the code does: pages 0..7 complete and supply bytes 0..254 of the
\* page, every other page faults
C35_OamDmaRamPagesOnly ==
    [][\A d \in DmaPages : Write(OAMDMA, d) =>
          /\ panicked' = (d > 7)
          /\ d <= 7 =>
                \A i \in 0..254 :
                   Get(bus'.ppu.oam_data, (bus.ppu.oam_addr + i) % 256)
                       = mem_read(bus, d * 256 + i).val]_vars

(***************************************************************************)
(* PPUDATA accesses in the palette range                                   *)
(***************************************************************************)
PaletteEntries == 0..(PALETTE_LEN - 1)

\* the palette after the access differs from the one before in entry i
\* only, which holds b
StoredInEntry(i, b) ==
    /\ Get(bus'.ppu.palette, i) = b
    /\ \A j \in PaletteEntries \ {i} :
          Get(bus'.ppu.palette, j) = Get(bus.ppu.palette, j)

\* C38: every PPUDATA read and write with the VRAM address in 0x3F00-0x3FFF
\* accesses one of the 32 palette entries and never faults.
C38_PaletteAccess ==
    [][bus.ppu.addr.value \in 16128..16383 =>
          /\ Read(PPUDATA) =>
                /\ ~panicked'
                /\ \E i \in PaletteEntries :
                      mem_read(bus, PPUDATA).val = Get(bus.ppu.palette, i)
          /\ \A b \in DataBytes : Write(PPUDATA, b) =>
                /\ ~panicked'
                /\ \E i \in PaletteEntries : StoredInEntry(i, b)]_vars

\* what the code does: in 0x3F00-0x3F1F a read returns an entry without
\* fault and a write outside the four aliases stores in entry a - 0x3F00;
\* every other access of the range faults
C38_PaletteAccessFirst32 ==
    [][LET a == bus.ppu.addr.value
       IN a \in 16128..16383 =>
             /\ Read(PPUDATA) => panicked' = (a > 16159)
             /\ \A b \in DataBytes : Write(PPUDATA, b) =>
                   /\ panicked' = (a > 16159 \/ a \in PaletteAliases)
                   /\ ~panicked' => StoredInEntry(a - 16128, b)]_vars

(***************************************************************************)
(* Subroutine call and return                                              *)
(***************************************************************************)
\* the 16-bit word JSR left on the stack when the stack pointer was s
PushedWord(b, s) ==
    256 * Get(b.cpu_vram, StackAddr(s)) + Get(b.cpu_vram, StackAddr(s + 255))

\* JSR and the instruction at its target, run from the current state, come
\* back behind the JSR with the stack pointer restored, in either build
ReturnsBehindJsr ==
    \A oc \in BOOLEAN :
        \E r \in {Run2(cpu, bus, oc)} :
            /\ ~r.panic
            /\ r.cpu.program_counter = cpu.program_counter + 3
            /\ r.cpu.register_s = cpu.register_s

\* C31: JSR at opcode address p with operand t pushes the 16-bit value p + 2
\* and continues execution at t; an RTS executed with the stack pointer at
\* its value after the JSR continues execution at p + 3 and restores S to its
\* value before the JSR.
C31_JsrRts ==
    [][(ProgStep /\ Fetched = 32) =>
          /\ ~panicked'
          /\ PushedWord(bus', cpu.register_s) = cpu.program_counter + 2
          /\ cpu'.program_counter = Operand16
          /\ mem_read(bus, Operand16).val = 96 => ReturnsBehindJsr]_vars

\* what does hold: the same for every operand t from 0x0002 up, and for the
\* operands 0x0000 and 0x0001 the push alone
C31_JsrRtsFromTwo ==
    [][(ProgStep /\ Fetched = 32) =>
          /\ PushedWord(bus', cpu.register_s) = cpu.program_counter + 2
          /\ Operand16 >= 2 =>
                /\ ~panicked'
                /\ cpu'.program_counter = Operand16
                /\ mem_read(bus, Operand16).val = 96 => ReturnsBehindJsr]_vars

(***************************************************************************)
(* Instruction lengths                                                     *)
(***************************************************************************)
\* the length that goes with an addressing mode
ModeLength(mode) ==
    CASE mode \in {"Immediate", "ZeroPage", "ZeroPage_X", "ZeroPage_Y",
                   "Indirect_X", "Indirect_Y"} -> 2
      [] mode \in {"Absolute", "Absolute_X", "Absolute_Y"} -> 3
      [] OTHER -> 1

\* the address of the instruction that the operand programs set up
OpAddress == ProgramBase + 33

\* C32: a step executes one instruction; for every opcode other than the
\* branches, JMP, JSR, RTS, RTI and BRK an instruction fetched at p leaves the
\* program counter at p + len, len being the length of the opcode's table
\* descriptor, which is 1 for an implied operand, 2 for the immediate,
\* zero-page and indirect modes and 3 for the absolute modes.
C32_SequentialStep ==
    [][(ProgStep /\ Fetched \in SequentialOpcodes) =>
          /\ ~panicked'
          /\ cpu'.program_counter = cpu.program_counter + OpLen(Fetched)
          /\ OpLen(Fetched) = ModeLength(OpMode(Fetched))]_vars

\* INC $0240 at 0x0621 has been executed: the byte there has gone from 1 to
\* 2 and the program counter is behind its three bytes
C32_Witness ==
    /\ ~panicked /\ log = <<>>
    /\ cpu.program_counter = OpAddress + 3
    /\ CodeAt(-3) = 238
    /\ Get(bus.cpu_vram, 576) = 2

(***************************************************************************)
(* Shifts and rotates                                                      *)
(***************************************************************************)
\* the byte an instruction of the operand programs works on: the
\* accumulator, the byte at 0x40 or the byte at 0x0240
OperandOf(c, b, code) ==
    CASE OpMode(code) = "NoneAddressing" -> c.register_a
      [] OpMode(code) \in {"ZeroPage", "ZeroPage_X", "ZeroPage_Y"} -> Get(b.cpu_vram, 64)
      [] OTHER -> Get(b.cpu_vram, 576)

Flag(c, flag) == BitAnd(c.status, flag) # 0

\* the result of a shift or rotate of v with the carry flag at cin, and the
\* bit it shifts out
ShiftResult(code, v, cin) ==
    CASE code \in {10} \cup AslOpcodes -> [val |-> (v * 2) % 256, out |-> v \div 128]
      [] code \in {74} \cup LsrOpcodes -> [val |-> v \div 2, out |-> v % 2]
      [] code \in {42} \cup RolOpcodes -> [val |-> ((v * 2) % 256) + cin, out |-> v \div 128]
      [] code \in {106} \cup RorOpcodes -> [val |-> (v \div 2) + 128 * cin, out |-> v % 2]

\* the instruction under test of an operand program is about to execute
AtOp(codes) ==
    /\ ProgStep
    /\ cpu.program_counter = OpAddress
    /\ Fetched \in codes

\* C40: every shift and rotate (ASL, LSR, ROL, ROR), on the accumulator or
\* on memory, leaves Z = (result = 0), N = bit 7 of the result and C = the bit
\* shifted out; ROL and ROR shift the previous carry in.
C40_ShiftFlags ==
    [][AtOp(ShiftOpcodes) =>
          \E r \in {ShiftResult(Fetched, OperandOf(cpu, bus, Fetched),
                                IF Flag(cpu, CARRY) THEN 1 ELSE 0)} :
              /\ ~panicked'
              /\ OperandOf(cpu', bus', Fetched) = r.val
              /\ Flag(cpu', CARRY) = (r.out = 1)
              /\ Flag(cpu', NEGATIVE) = (r.val >= 128)
              /\ Flag(cpu', ZERO) = (r.val = 0)]_vars

\* what the code does: the same, except that ROL and ROR on memory leave
\* the zero flag as it was
C40_ShiftFlagsMemoryRotateKeepsZero ==
    [][AtOp(ShiftOpcodes) =>
          \E r \in {ShiftResult(Fetched, OperandOf(cpu, bus, Fetched),
                                IF Flag(cpu, CARRY) THEN 1 ELSE 0)} :
              /\ ~panicked'
              /\ OperandOf(cpu', bus', Fetched) = r.val
              /\ Flag(cpu', CARRY) = (r.out = 1)
              /\ Flag(cpu', NEGATIVE) = (r.val >= 128)
              /\ Flag(cpu', ZERO) = IF Fetched \in RolOpcodes \cup RorOpcodes
                                    THEN Flag(cpu, ZERO)
                                    ELSE r.val = 0]_vars

(***************************************************************************)
(* The unofficial opcodes as compositions of official instructions         *)
(***************************************************************************)
\* the two official parts of an unofficial opcode, run in order on the one
\* operand address a, from the registers c
OfficialParts(code, c, a) ==
    CASE code \in DcpOpcodes ->
            Only({compare(r.cpu, r.cpu.register_a, [a EXCEPT !.bus = r.bus, !.panic = r.panic]) :
                     r \in {dec(c, a)}})
      [] code \in IsbOpcodes ->
            Only({sbc(r.cpu, [a EXCEPT !.bus = r.bus, !.panic = r.panic]) :
                     r \in {inc(c, a)}})
      [] code \in SloOpcodes ->
            Only({ora(r.cpu, [a EXCEPT !.bus = r.bus, !.panic = r.panic]) :
                     r \in {asl(c, a)}})
      [] code \in RlaOpcodes ->
            Only({and(r.cpu, [a EXCEPT !.bus = r.bus, !.panic = r.panic]) :
                     r \in {rol(c, a)}})
      [] code \in SreOpcodes ->
            Only({eor(r.cpu, [a EXCEPT !.bus = r.bus, !.panic = r.panic]) :
                     r \in {lsr(c, a)}})
      [] code \in RraOpcodes ->
            Only({adc(r.cpu, [a EXCEPT !.bus = r.bus, !.panic = r.panic]) :
                     r \in {ror(c, a)}})
      [] code \in LaxOpcodes -> Only({AndThen(r, tax(r.cpu)) : r \in {lda(c, a)}})
      [] code = 75 -> Only({AndThen(r, lsr_acc(r.cpu)) : r \in {and(c, a)}})
      [] code \in AncOpcodes ->
            Only({AndThen(r, [r.cpu EXCEPT !.status = set_flag(r.cpu.status, CARRY,
                                                           r.cpu.register_a >= 128)]) : r \in {and(c, a)}})
      [] code \in AxsOpcodes ->
            [cpu |-> c,
             bus |-> mem_write(a.bus, a.val, BitAnd(c.register_a, c.register_x)).bus,
             panic |-> FALSE]

\* the step of the unofficial opcode at the program counter ends in the
\* state that its official parts leave
StepIsOfficialParts ==
    \E c1 \in {[cpu EXCEPT !.program_counter = cpu.program_counter + 1]} :
        \E a \in {get_operand_address(c1, bus, OpMode(Fetched), FALSE)} :
            \E r \in {OfficialParts(Fetched, c1, a)} :
                /\ ~panicked'
                /\ ~a.panic /\ ~r.panic
                /\ cpu' = [r.cpu EXCEPT !.program_counter =
                                           cpu.program_counter + OpLen(Fetched)]
                /\ bus' = r.bus

\* the first part of the opcode at the program counter writes a byte that
\* the operand address is computed from
FirstPartMovesOperand ==
    \E c1 \in {[cpu EXCEPT !.program_counter = cpu.program_counter + 1]} :
        get_operand_address(c1, bus', OpMode(Fetched), FALSE).val
            # get_operand_address(c1, bus, OpMode(Fetched), FALSE).val

\* C33: each unofficial opcode leaves registers, flags and memory exactly as
\* its two official parts, executed in order on the same operand address,
\* would: DCP = DEC, CMP; ISB = INC, SBC; SLO = ASL, ORA; RLA = ROL, AND;
\* SRE = LSR, EOR; RRA = ROR, ADC; LAX = LDA, TAX; ALR = AND, LSR A;
\* ANC = AND, C := bit 7 of A; SAX stores A & X and changes no flag.
C33_UnofficialOpcodes ==
    [][(ProgStep /\ Fetched \in UnofficialOpcodes) => StepIsOfficialParts]_vars

\* what does hold: the same whenever the write of the first part leaves the
\* operand address as it was
C33_UnofficialOpcodesFixedOperand ==
    [][(ProgStep /\ Fetched \in UnofficialOpcodes /\ ~FirstPartMovesOperand) =>
          StepIsOfficialParts]_vars

(***************************************************************************)
(* The trace callback: the run loop calls it before it fetches             *)
(***************************************************************************)
\* the match of trace on opcode.mode that computes mem_addr and mem_val: for
\* every mode with an operand address it reads the byte at that address
\* through the bus
trace_operand(c, b, code, overflow_checks) ==
    IF OpMode(code) \in {"Immediate", "NoneAddressing"}
    THEN [bus |-> b, panic |-> FALSE]
    ELSE IF overflow_checks /\ ~Fits(c.program_counter + 1)
    THEN [bus |-> b, panic |-> TRUE]
    ELSE Only({IF a.panic THEN [bus |-> a.bus, panic |-> TRUE]
               ELSE Only({[bus |-> mem.bus, panic |-> mem.panic] :
                             mem \in {mem_read(a.bus, a.val)}}) :
                  a \in {get_operand_address_from_base(
                            c, b, OpMode(code), Wrap(c.program_counter + 1),
                            overflow_checks)}})

\* the match of trace on opcode.len that reads the operand bytes, and for
\* JMP indirect the target
trace_bytes(c, b, code, overflow_checks) ==
    IF OpLen(code) = 1
    THEN [bus |-> b, panic |-> FALSE]
    ELSE IF overflow_checks /\ ~Fits(c.program_counter + OpLen(code) - 1)
    THEN [bus |-> b, panic |-> TRUE]
    ELSE Only({IF OpLen(code) = 2 \/ lo.panic
               THEN [bus |-> lo.bus, panic |-> lo.panic]
               ELSE Only({IF code # 108 \/ hi.panic
                          THEN [bus |-> hi.bus, panic |-> hi.panic]
                          ELSE Only({[bus |-> t.bus, panic |-> t.panic] :
                                        t \in {calculate_jmp_indirect_bug(
                                                  hi.bus, hi.val * 256 + lo.val)}}) :
                             hi \in {mem_read(lo.bus, Wrap(c.program_counter + 2))}}) :
                  lo \in {mem_read(b, Wrap(c.program_counter + 1))}})

\* trace(cpu): what the call does to the bus; the line of text it returns is
\* built from the values read and kept by the caller, the registers are only
\* read
trace(c, b, overflow_checks) ==
    Only({IF f.panic \/ OPCODES_MAP_get(f.val) = None
          THEN [bus |-> f.bus, panic |-> TRUE]
          ELSE Only({IF o.panic THEN o ELSE trace_bytes(c, o.bus, f.val, overflow_checks) :
                        o \in {trace_operand(c, f.bus, f.val, overflow_checks)}}) :
             f \in {mem_read(b, c.program_counter)}})

\* the bus cycles the host may tick before the run starts: up to the end of
\* scanline 241, where the PPU is in VBlank
MaxTraceCycles == 27540

\* 0600 LDA #v ; STA $2006 ; LDA #$08 ; STA $2006 ; LDA #$66 ; STA $2007 ;
\* LDA #v ; STA $2006 ; 0614 op t ; LDA $2007 ; BRK
TraceProgram(v, op, t) ==
    <<169, v, 141, 6, 32, 169, 8, 141, 6, 32, 169, 102, 141, 7, 32,
      169, v, 141, 6, 32, op, t % 256, t \div 256, 173, 7, 32, 0>>

\* LDA, STA, BIT, LDX and INC absolute
TraceOpcodes == {173, 141, 44, 174, 238}

\* the status register, its mirror at 0x200A, the data register, the
\* controller port and a RAM cell
TraceTargets == {8194, 8202, 8199, 16406, 576}

TracePrograms ==
    {TraceProgram(v, op, t) : v \in {33, 35}, op \in TraceOpcodes, t \in TraceTargets}
        \cup {OpProgram(op, 128, 1, 85) : op \in LaxOpcodes \cup RraOpcodes}

\* CPU::load_and_run up to the call of run_with_callback
InitTrace ==
    \E program \in TracePrograms :
        \E l \in {CPU_load(Bus_new(TestRom("HORIZONTAL")), program, 1)} :
            \E r \in {CPU_reset(CPU_new, l.bus, FALSE)} :
                /\ cpu = [r.cpu EXCEPT !.program_counter = ProgramBase]
                /\ bus = r.bus
                /\ panicked = (l.panic \/ r.panic)
                /\ log = <<>>

\* the host ticks the bus before the run starts
TraceTick ==
    /\ ~panicked
    /\ log = <<>>
    /\ cpu.program_counter = ProgramBase
    /\ bus.cycles + CpuTickCharge <= MaxTraceCycles
    /\ \E oc \in OverflowChecks(CpuTickCharge), buttons \in CallbackButtons(CpuTickCharge) :
          \E r \in {Bus_tick(bus, CpuTickCharge, oc, buttons)} :
              /\ bus' = r.bus
              /\ panicked' = r.panic
    /\ UNCHANGED <<cpu, log>>

\* the host starts the run at power-up or once the PPU is in VBlank
RunStarts == bus.cycles = 0 \/ bus.ppu.scanlines >= VBLANK_SCANLINE

\* one iteration of the loop of run_with_callback with trace as the
\* callback: the callback, then the instruction
TraceStep ==
    /\ ~panicked
    /\ log = <<>>
    /\ RunStarts
    /\ \E oc \in BOOLEAN :
          \E t \in {trace(cpu, bus, oc)} :
              IF t.panic
              THEN cpu' = cpu /\ bus' = t.bus /\ panicked' = TRUE
              ELSE \E r \in {CPU_step(cpu, t.bus, oc)} :
                      /\ cpu' = r.cpu
                      /\ bus' = r.bus
                      /\ panicked' = r.panic
    /\ log' = IF Fetched = 0
              THEN <<[op |-> "return", addr |-> cpu.program_counter, data |-> 0, val |-> 0]>>
              ELSE log

NextTrace == TraceTick \/ TraceStep

SpecTrace == InitTrace /\ [][NextTrace]_vars

\* the iteration ends where the same iteration without the callback ends,
\* and the callback leaves the bus as it found it
TraceIsTransparent ==
    \E oc \in BOOLEAN :
        \E t \in {trace(cpu, bus, oc)}, r \in {CPU_step(cpu, bus, oc)} :
            /\ ~t.panic
            /\ t.bus = bus
            /\ cpu' = r.cpu
            /\ bus' = r.bus
            /\ panicked' = r.panic

\* the address whose byte trace reads for the instruction at the program
\* counter is a PPU status or data register, or the controller port
TraceReadsRegister ==
    /\ OpMode(Fetched) \notin {"Immediate", "NoneAddressing"}
    /\ \E a \in {get_operand_address_from_base(cpu, bus, OpMode(Fetched),
                                               cpu.program_counter + 1, FALSE).val} :
          \/ a = 16406
          \/ a \in 8192..PPU_REGISTERS_MIRRORS_END /\ BitAnd(a, 8199) \in {PPUSTATUS, PPUDATA}

\* C39: trace(cpu), called before an instruction, leaves the CPU registers,
\* RAM, the PPU state (VBlank bit, latches, VRAM address, read buffer) and the
\* controller read index unchanged, also when the operand address of the
\* instruction is 0x2002, 0x2007 or 0x4016; a run with the trace callback
\* reaches the states of the same run without it.
C39_TraceIsTransparent ==
    [][TraceStep => TraceIsTransparent]_vars

\* what does hold: the same for every instruction whose operand address is
\* not the status register, the data register or the controller port
C39_TraceOutsideRegisters ==
    [][(TraceStep /\ ~TraceReadsRegister) => TraceIsTransparent]_vars

====
